---- MODULE Spec2Model ----
(***************************************************************************)
(* Model of the youtubeaio client: the YouTube class (youtube.py) with its *)
(* paginated generator, status classification, user token store and        *)
(* session handling, together with the helpers it calls (helper.py) and    *)
(* the item decoder (models.py).                                            *)
(*                                                                         *)
(* One paginated iteration (the async generator returned by get_videos)    *)
(* is modelled by its position pc:                                         *)
(*   "idle"      no generator has been created                             *)
(*   "created"   get_videos(...) was called, nothing has run yet           *)
(*   "inflight"  suspended in `await method(...)` under the timeout        *)
(*   "suspended" suspended at `yield`, an item was handed to the consumer  *)
(*   "done"      the generator returned (StopAsyncIteration)               *)
(*   "failed"    the generator raised; error holds the exception           *)
(*                                                                         *)
(* Beside the client stand refresh_access_token (oauth.py), the generator  *)
(* helpers first and limit and the URL builder build_url (helper.py), and  *)
(* the resource classes with their optional parts (models.py). Each has    *)
(* its own variables and its own specification:                            *)
(*   Spec         one paginated iteration and close()                      *)
(*   SpecAuth     set_user_authentication on every kind of client          *)
(*   SpecOAuth    refresh_access_token                                     *)
(*   SpecSession  iteration, close() and token refresh side by side        *)
(*   SpecFirst    get_video: first on the generator of get_videos          *)
(*   SpecLimit    limit on a generator                                     *)
(*   SpecUrl      build_url                                                *)
(*   SpecModels   decoding raw items and reading their parts               *)
(***************************************************************************)
EXTENDS Integers, Sequences, FiniteSets, TLC

(* ------------------------------ bounds --------------------------------- *)

\* longest chain of responses the provider gives to one iteration
MaxPages == 2

\* largest items array of one page
MaxItems == 2

\* a configured timeout shorter than the default
ShortTimeout == 2

\* most parameters of one build_url call
MaxParams == 2

\* longest list value of a build_url parameter
MaxListLen == 2

\* most items of a generator handed to limit
MaxSource == 3

\* largest total handed to limit
MaxTotal == 3

(* ----------------------------- constants ------------------------------- *)

\* session_timeout: int = 10
DefaultTimeout == 10

None == "None"

base_url == "https://youtube.googleapis.com/youtube/v3/"

\* page tokens the provider hands out
Tokens == {"X", "Q=="}

\* user access tokens
UserTokens == {"tokA", "tokB"}

RefreshTokens == {None, "refresh"}

\* scope lists passed to set_user_authentication
ScopeLists == {<<>>, <<"READ_ONLY">>}

\* id lists passed to get_videos
VideoIdLists == {<<>>, <<"Ks-_Mh1QhMc", "V4DDt30Aat4">>}

\* statuses the provider answers with
Statuses == {200, 400, 401, 403, 404, 418, 429, 500, 503}

ContentTypes == {"application/json", "plain/text"}

Messages == {None, "bad"}

NoError == [cls |-> None, msg |-> ""]

Err(cls, msg) == [cls |-> cls, msg |-> msg]

(* ------------------------- helper.py: build_url ------------------------ *)

\* parameter values: None, a string, a list of strings, or an Enum member
NoneVal == [t |-> "none"]

StrVal(s) == [t |-> "str", v |-> s]

ListVal(l) == [t |-> "list", v |-> l]

EnumVal(name, value) == [t |-> "enum", v |-> value, name |-> name]

\* a string as the runs it is made of: every character that
\* urllib.parse.quote percent-encodes is a run of its own, a stretch of
\* letters, digits and "_.-~/" is one run
runs(s) ==
    CASE s = "Q==" -> <<"Q", "=", "=">>
      [] s = "https://www.googleapis.com/auth/youtube"
            -> <<"https", ":", "//www.googleapis.com/auth/youtube">>
      [] OTHER -> <<s>>

\* urllib.parse.quote on one run
quote_run(r) ==
    CASE r = "=" -> "%3D"
      [] r = ":" -> "%3A"
      [] r = "[" -> "%5B"
      [] r = "]" -> "%5D"
      [] r = "'" -> "%27"
      [] r = "," -> "%2C"
      [] r = " " -> "%20"
      [] OTHER -> r

\* urllib.parse.quote, run by run
RECURSIVE quote(_)
quote(rs) ==
    IF rs = <<>> THEN "" ELSE quote_run(Head(rs)) \o quote(Tail(rs))

\* the elements of a list in its Python repr: 'a', 'b'
RECURSIVE join_repr(_)
join_repr(l) ==
    IF l = <<>>
    THEN <<>>
    ELSE <<"'">> \o runs(Head(l)) \o <<"'">>
         \o (IF Tail(l) = <<>> THEN <<>> ELSE <<",", " ">> \o join_repr(Tail(l)))

\* str() of a parameter value, as runs; a list renders as its Python repr,
\* an Enum member as its value when enum_value is set and as its name when
\* it is not
get_value(input_value, enum_value) ==
    CASE input_value.t = "list" -> <<"[">> \o join_repr(input_value.v) \o <<"]">>
      [] input_value.t = "enum" ->
            IF enum_value THEN runs(input_value.v) ELSE <<input_value.name>>
      [] OTHER -> runs(input_value.v)

\* one query part is appended to the query string res: "&" when res is not
\* empty, the key, and "=" with the quoted value unless the value is None
add_param(res, query_key, query_value, enum_value) ==
    LET keyed == (IF res # "" THEN res \o "&" ELSE res) \o query_key
    IN IF query_value.t = "none"
       THEN keyed
       ELSE keyed \o "=" \o quote(get_value(query_value, enum_value))

\* `for val in value: add_param(result, key, val)`
RECURSIVE add_list(_, _, _, _)
add_list(res, query_key, list, enum_value) ==
    IF list = <<>>
    THEN res
    ELSE add_list(add_param(res, query_key, StrVal(Head(list)), enum_value),
                  query_key, Tail(list), enum_value)

\* variant: a None value is never skipped
build_query_keepNone(result, params, remove_none, split_lists, enum_value) ==
    LET keep[i \in 0..Len(params)] ==
            IF i = 0
            THEN result
            ELSE LET key == params[i].key
                     value == params[i].value
                 IN IF split_lists /\ value.t = "list"
                    THEN add_list(keep[i - 1], key, value.v, enum_value)
                    ELSE add_param(keep[i - 1], key, value, enum_value)
    IN keep[Len(params)]

\* variant: a list is never split
build_query_noSplit(result, params, remove_none, split_lists, enum_value) ==
    LET whole[i \in 0..Len(params)] ==
            IF i = 0
            THEN result
            ELSE LET key == params[i].key
                     value == params[i].value
                 IN IF value.t = "none" /\ remove_none
                    THEN whole[i - 1]
                    ELSE add_param(whole[i - 1], key, value, enum_value)
    IN whole[Len(params)]

\* `for key, value in params.items()`: the query string after the loop
RECURSIVE build_query(_, _, _, _, _)
build_query(result, params, remove_none, split_lists, enum_value) ==
    IF params = <<>>
    THEN result
    ELSE LET key == Head(params).key
             value == Head(params).value
             next == IF value.t = "none" /\ remove_none
                     THEN result
                     ELSE IF split_lists /\ value.t = "list"
                          THEN add_list(result, key, value.v, enum_value)
                          ELSE add_param(result, key, value, enum_value)
         IN build_query(next, Tail(params), remove_none, split_lists,
                        enum_value)

\* the URL: the base, and "?" with the query string when it is not empty
build_url(url, params, remove_none, split_lists, enum_value) ==
    LET result == build_query("", params, remove_none, split_lists, enum_value)
    IN url \o (IF result # "" THEN "?" \o result ELSE "")

(* ------------------------------ models.py ------------------------------ *)

\* None where the value is otherwise a record: an optional part that was
\* not decoded
PyNone == [none |-> TRUE]

\* pydantic's datetime parsing of the timestamps that occur here
parse_datetime(s) ==
    CASE s = "2023-05-11T00:20:46Z"
            -> [year |-> 2023, month |-> 5, day |-> 11,
                hour |-> 0, minute |-> 20, second |-> 46]
      [] s = "2015-11-19T13:00:05Z"
            -> [year |-> 2015, month |-> 11, day |-> 19,
                hour |-> 13, minute |-> 0, second |-> 5]

\* pydantic's int parsing of the counts that occur here
parse_int(s) ==
    CASE s = "214141263" -> 214141263
      [] s = "5937" -> 5937

\* the sub-records: every field is read under its alias
YouTubeVideoSnippet(raw) ==
    [published_at |-> parse_datetime(raw.publishedAt),
     channel_id |-> raw.channelId,
     title |-> raw.title]

YouTubeChannelSnippet(raw) ==
    [title |-> raw.title,
     published_at |-> parse_datetime(raw.publishedAt)]

YouTubeChannelContentDetails(raw) ==
    [related_playlists |-> [likes |-> raw.relatedPlaylists.likes,
                            uploads |-> raw.relatedPlaylists.uploads]]

YouTubeChannelStatistics(raw) ==
    [view_count |-> parse_int(raw.viewCount),
     subscriber_count_hidden |-> raw.hiddenSubscriberCount,
     video_count |-> parse_int(raw.videoCount)]

YouTubeSubscriptionSnippet(raw) ==
    [title |-> raw.title,
     subscribed_at |-> parse_datetime(raw.publishedAt),
     channel_info |-> raw.resourceId]

YouTubePlaylistItemSnippet(raw) ==
    [added_at |-> parse_datetime(raw.publishedAt),
     title |-> raw.title,
     playlist_id |-> raw.playlistId]

YouTubePlaylistItemContentDetails(raw) == [video_id |-> raw.videoId]

\* YouTubeVideo(**entry): `id` is read under its alias, the optional snippet
\* part is kept as nullable_snippet (None when the entry has no snippet)
YouTubeVideo(entry) ==
    [video_id |-> entry.id,
     nullable_snippet |-> IF "snippet" \in DOMAIN entry
                          THEN YouTubeVideoSnippet(entry.snippet)
                          ELSE PyNone]

YouTubeChannel(entry) ==
    [channel_id |-> entry.id,
     nullable_snippet |-> IF "snippet" \in DOMAIN entry
                          THEN YouTubeChannelSnippet(entry.snippet)
                          ELSE PyNone,
     nullable_content_details |->
        IF "contentDetails" \in DOMAIN entry
        THEN YouTubeChannelContentDetails(entry.contentDetails)
        ELSE PyNone,
     nullable_statistics |-> IF "statistics" \in DOMAIN entry
                             THEN YouTubeChannelStatistics(entry.statistics)
                             ELSE PyNone]

YouTubeSubscription(entry) ==
    [subscription_id |-> entry.id,
     nullable_snippet |-> IF "snippet" \in DOMAIN entry
                          THEN YouTubeSubscriptionSnippet(entry.snippet)
                          ELSE PyNone]

YouTubePlaylistItem(entry) ==
    [playlist_item_id |-> entry.id,
     nullable_snippet |-> IF "snippet" \in DOMAIN entry
                          THEN YouTubePlaylistItemSnippet(entry.snippet)
                          ELSE PyNone,
     nullable_content_details |->
        IF "contentDetails" \in DOMAIN entry
        THEN YouTubePlaylistItemContentDetails(entry.contentDetails)
        ELSE PyNone]

\* how a property access ends
PartMissing == [outcome |-> "PartMissingError", value |-> PyNone]

PartValue(value) == [outcome |-> "returned", value |-> value]

\* variant: the snippet property hands out whatever was decoded
snippet_unchecked(obj) == PartValue(obj.nullable_snippet)

\* the properties snippet, content_details and statistics
snippet(obj) ==
    IF obj.nullable_snippet = PyNone
    THEN PartMissing
    ELSE PartValue(obj.nullable_snippet)

content_details(obj) ==
    IF obj.nullable_content_details = PyNone
    THEN PartMissing
    ELSE PartValue(obj.nullable_content_details)

statistics(obj) ==
    IF obj.nullable_statistics = PyNone
    THEN PartMissing
    ELSE PartValue(obj.nullable_statistics)

(* ------------------------------- state --------------------------------- *)

VARIABLES
    \* arguments __init__ was called with
    ctor,
    \* YouTube fields
    session, _close_session, session_timeout, auto_refresh_auth,
    _user_auth_token, _user_auth_refresh_token, _user_auth_scopes,
    _has_user_auth,
    \* sessions that have been closed
    closed,
    \* the generator of get_videos / _build_generator: position and locals
    pc, video_ids, _after, _first, data, idx,
    \* time the request in flight has been awaited
    elapsed,
    \* what the consumer has received, and the exception that ended the iteration
    yielded, error,
    \* what the transport has seen: requests issued, responses given
    requests, responses,
    \* the last set_user_authentication call and how it ended
    authCall,
    \* the operation of the client that ran last
    op,
    \* oauth.py, refresh_access_token: position, arguments and the URL
    \* posted to, the session it posts on, the token endpoint's answer and
    \* how the call ended
    oauth_pc, oauth_args, oauth_ses, token_response, oauth_return,
    \* helper.py, limit: position, the underlying generator's items and how
    \* often it was advanced, total, count, items yielded, the error raised
    limit_pc, generator, pulled, total, count, limited, limit_error,
    \* helper.py, first: how the call ended
    first_return,
    \* helper.py, build_url: the arguments of a call and the URL returned
    url_args, url_result,
    \* models.py: a raw item, the resource decoded from it, the last
    \* property read and how that ended
    raw_item, resource, accessed,
    \* models.py: a thumbnails object and what get_highest_quality returned
    thumbnails, highest_quality,
    \* a second YouTube instance of the same process: its auto_refresh_auth
    \* and its credential fields
    other,
    \* a client of async_python_youtube, which has app credentials: its
    \* fields, the position of authenticate_app, the app credential when the
    \* last call began, the last call and the error it raised
    app,
    \* a second get_videos generator of the same client: position, locals,
    \* what its consumer received and what the transport saw of it
    iter2

clientVars == <<ctor, session, _close_session, session_timeout,
                auto_refresh_auth, closed>>

authVars == <<_user_auth_token, _user_auth_refresh_token, _user_auth_scopes,
              _has_user_auth, authCall>>

genVars == <<pc, video_ids, _after, _first, data, idx, elapsed, yielded,
             error, requests, responses>>

oauthVars == <<oauth_pc, oauth_args, oauth_ses, token_response,
               oauth_return>>

\* the generator helpers limit and first
limitVars == <<limit_pc, generator, pulled, total, count, limited,
               limit_error, first_return>>

urlVars == <<url_args, url_result>>

thumbVars == <<thumbnails, highest_quality>>

modelVars == <<raw_item, resource, accessed, thumbVars>>

\* everything outside the YouTube client
\* the other objects of the process
processVars == <<app, iter2>>

helperVars == <<oauthVars, limitVars, urlVars, modelVars, other, processVars>>

vars == <<clientVars, authVars, genVars, op, helperVars>>

\* the class attribute `field(default_factory=list)`: a dataclasses Field
\* object, not a list of scopes
UnsetScopes == <<"dataclasses.Field">>

NoData == [has_items |-> FALSE, items |-> <<>>, nextPageToken |-> None,
           message |-> None]

\* get_videos has not been called a second time
NoIteration ==
    [pc |-> "idle", video_ids |-> <<>>, _after |-> None, _first |-> TRUE,
     data |-> NoData, idx |-> 0, yielded |-> <<>>, error |-> NoError,
     requests |-> <<>>, responses |-> <<>>]

NoCall == [token |-> None, scopes |-> <<>>, refresh_token |-> None,
           result |-> None]

\* refresh_access_token has not been called, nothing was answered or returned
NoArgs == [refresh_token |-> None, session |-> None, url |-> None]

NoAnswer == [status |-> 0, body |-> [json |-> FALSE, access_token |-> None,
                                     error |-> None]]

NoReturn == [kind |-> None, cls |-> None, msg |-> "", value |-> <<>>]

\* first has not returned
NoFirst == [kind |-> None, value |-> PyNone, error |-> NoError]

\* build_url has not been called
NoUrlArgs == [url |-> None, params |-> <<>>, remove_none |-> TRUE,
              split_lists |-> FALSE, enum_value |-> TRUE]

\* no raw item, no decoded resource, no part accessed
NoItem == [kind |-> None]

NoAccess == [part |-> None, outcome |-> None, value |-> PyNone]

(* ---------------------------- the provider ----------------------------- *)

\* the i-th raw item of the k-th answer; every item of a chain is distinct
RawItem(k, i) ==
    IF i = 1
    THEN [id |-> <<k, i>>,
          snippet |-> [publishedAt |-> "2023-05-11T00:20:46Z",
                       channelId |-> "UCAuUUnT6oDeKwE6v1NGQxug",
                       title |-> "title"]]
    ELSE [id |-> <<k, i>>]

ProviderItems(k, n) == [i \in 1..n |-> RawItem(k, i)]

\* cursors the k-th answer may carry: the chain is at most MaxPages long
Cursors(k) == IF k < MaxPages THEN Tokens \cup {None} ELSE {None}

\* JSON bodies of a page: items absent, or an array of 0..MaxItems items
PageBodies(k) ==
    {[has_items |-> h, items |-> ProviderItems(k, n), nextPageToken |-> t,
      message |-> None] :
        h \in {TRUE}, n \in 0..MaxItems, t \in Cursors(k)}
    \cup
    {[has_items |-> FALSE, items |-> <<>>, nextPageToken |-> t,
      message |-> None] : t \in Cursors(k)}

\* the body that comes with an answer that is not a page: it carries an item
\* and a cursor all the same, and a message or none
OtherBody(k, m) ==
    [has_items |-> TRUE, items |-> ProviderItems(k, 1),
     nextPageToken |-> CHOOSE t \in Cursors(k) : k < MaxPages => t # None,
     message |-> m]

\* the answers the provider can give as its k-th answer.  A 400 answer is
\* read with response.json() and so comes as a JSON object.
Answers(k) ==
    {[status |-> 200, content_type |-> "application/json", body |-> b] :
        b \in PageBodies(k)}
    \cup
    {[status |-> 200, content_type |-> "plain/text", body |-> OtherBody(k, None)]}
    \cup
    {[status |-> 400, content_type |-> "application/json",
      body |-> OtherBody(k, m)] : m \in Messages}
    \cup
    {[status |-> st, content_type |-> ct, body |-> OtherBody(k, None)] :
        st \in Statuses \ {200, 400}, ct \in ContentTypes}

(* ----------------------- youtube.py: __init__ --------------------------- *)

\* variant: one of app_id and app_secret is enough
init_auto_refresh_auth_either(args) ==
    IF args.auto_refresh_auth = None
    THEN args.app_id # None \/ args.app_secret # None
    ELSE args.auto_refresh_auth = "True"

\* auto_refresh_auth as __init__ computes it from its arguments
init_auto_refresh_auth(args) ==
    IF args.auto_refresh_auth = None
    THEN args.app_id # None /\ args.app_secret # None
    ELSE args.auto_refresh_auth = "True"

\* the client right after YouTube(**args)
Constructed(args) ==
    /\ ctor = args
    /\ session = args.session
    /\ _close_session = FALSE
    /\ session_timeout = args.session_timeout
    /\ auto_refresh_auth = init_auto_refresh_auth(args)
    /\ _user_auth_token = None
    /\ _user_auth_refresh_token = None
    /\ _user_auth_scopes = UnsetScopes
    /\ _has_user_auth = FALSE
    /\ closed = {}
    /\ pc = "idle"
    /\ video_ids = <<>>
    /\ _after = None
    /\ _first = TRUE
    /\ data = NoData
    /\ idx = 0
    /\ elapsed = 0
    /\ yielded = <<>>
    /\ error = NoError
    /\ requests = <<>>
    /\ responses = <<>>
    /\ authCall = NoCall
    /\ op = "__init__"

\* clients the paginated iteration is exercised on
GenCtorArgs ==
    [app_id : {None}, app_secret : {None}, session : {None, "supplied"},
     session_timeout : {DefaultTimeout, ShortTimeout},
     auto_refresh_auth : {None}]

\* clients the token store is exercised on
AuthCtorArgs ==
    [app_id : {None, "app"}, app_secret : {None, "secret"},
     session : {None, "supplied"}, session_timeout : {DefaultTimeout},
     auto_refresh_auth : {None, "True", "False"}]

\* YouTube()
DefaultArgs ==
    [app_id |-> None, app_secret |-> None, session |-> None,
     session_timeout |-> DefaultTimeout, auto_refresh_auth |-> None]

\* refresh_access_token has not been called
OAuthIdle ==
    /\ oauth_pc = "idle"
    /\ oauth_args = NoArgs
    /\ oauth_ses = None
    /\ token_response = NoAnswer
    /\ oauth_return = NoReturn

\* limit and first have not been called
LimitIdle ==
    /\ first_return = NoFirst
    /\ limit_pc = "idle"
    /\ generator = <<>>
    /\ pulled = 0
    /\ total = 0
    /\ count = 0
    /\ limited = <<>>
    /\ limit_error = NoError

\* build_url has not been called
UrlIdle ==
    /\ url_args = NoUrlArgs
    /\ url_result = None

\* no thumbnails object is at hand
ThumbsIdle ==
    /\ thumbnails = NoItem
    /\ highest_quality = PyNone

\* no raw item is at hand
ModelsIdle ==
    /\ raw_item = NoItem
    /\ resource = NoItem
    /\ accessed = NoAccess
    /\ ThumbsIdle

\* a second instance constructed from args: the credential fields are the
\* class attributes until the instance is assigned its own
OtherConstructed(args) ==
    other = [auto_refresh_auth |-> init_auto_refresh_auth(args),
             _user_auth_token |-> None,
             _user_auth_refresh_token |-> None,
             _user_auth_scopes |-> UnsetScopes,
             _has_user_auth |-> FALSE]

\* the second instance is there and is not used
OtherIdle == OtherConstructed(DefaultArgs)

\* a client of async_python_youtube constructed with app_secret: the app
\* credential fields are the class attributes
AppConstructed(app_secret) ==
    app = [app_secret |-> app_secret,
           _app_auth_token |-> None,
           _app_auth_scopes |-> UnsetScopes,
           _has_app_auth |-> FALSE,
           pc |-> "idle",
           op |-> "__init__",
           before |-> <<None, UnsetScopes, FALSE>>,
           error |-> None]

\* the other objects of the process are there and are not used
ProcessIdle == AppConstructed(None) /\ iter2 = NoIteration

\* nothing outside the client has been called
HelpersIdle ==
    OAuthIdle /\ LimitIdle /\ UrlIdle /\ ModelsIdle /\ OtherIdle /\ ProcessIdle

Init == (\E args \in GenCtorArgs : Constructed(args)) /\ HelpersIdle

InitAuth == (\E args \in AuthCtorArgs : Constructed(args)) /\ HelpersIdle

(* ------------------ youtube.py: _check_request_return ------------------ *)

\* variant: 404 is not told apart from the other 4xx statuses
_check_request_return_no404(response) ==
    IF response.status = 500
    THEN Err("YouTubeBackendError", "Internal Server Error")
    ELSE IF response.status = 400
    THEN LET msg == response.body.message
         IN Err("YouTubeAPIError",
                "Bad Request" \o (IF msg = None THEN "" ELSE " - " \o msg))
    ELSE IF 400 <= response.status /\ response.status < 500
    THEN Err("YouTubeAPIError", "")
    ELSE NoError

\* variant: the message of a 400 body is dropped
_check_request_return_noMessage(response) ==
    IF response.status = 500
    THEN Err("YouTubeBackendError", "Internal Server Error")
    ELSE IF response.status = 400
    THEN Err("YouTubeAPIError", "Bad Request")
    ELSE IF response.status = 404
    THEN Err("YouTubeResourceNotFoundError", "")
    ELSE IF 400 <= response.status /\ response.status < 500
    THEN Err("YouTubeAPIError", "")
    ELSE NoError

\* variant: the catch-all for the remaining 4xx statuses is missing
_check_request_return_no4xx(response) ==
    IF response.status = 500
    THEN Err("YouTubeBackendError", "Internal Server Error")
    ELSE IF response.status = 400
    THEN LET msg == response.body.message
         IN Err("YouTubeAPIError",
                "Bad Request" \o (IF msg = None THEN "" ELSE " - " \o msg))
    ELSE IF response.status = 404
    THEN Err("YouTubeResourceNotFoundError", "")
    ELSE NoError

\* the exception _check_request_return raises for a response, NoError when
\* it returns the response
_check_request_return(response) ==
    IF response.status = 500
    THEN Err("YouTubeBackendError", "Internal Server Error")
    ELSE IF response.status = 400
    THEN LET msg == response.body.message
         IN Err("YouTubeAPIError",
                "Bad Request" \o (IF msg = None THEN "" ELSE " - " \o msg))
    ELSE IF response.status = 404
    THEN Err("YouTubeResourceNotFoundError", "")
    ELSE IF 400 <= response.status /\ response.status < 500
    THEN Err("YouTubeAPIError", "")
    ELSE NoError

(* -------------------- youtube.py: _api_get_request --------------------- *)

\* variant: the token of the iteration's first request is used again
_api_get_request_cachedToken(ses, url) ==
    [session |-> ses, url |-> url,
     headers |-> IF requests = <<>>
                 THEN [Authorization |-> "Bearer " \o _user_auth_token]
                 ELSE requests[1].headers]

\* the GET request as the transport sees it
_api_get_request(ses, url) ==
    [session |-> ses, url |-> url,
     headers |-> [Authorization |-> "Bearer " \o _user_auth_token]]

(* -------------------- youtube.py: _build_generator --------------------- *)

\* url_params of get_videos after `url_params["pageToken"] = _after`
UrlParams(ids, after) ==
    << [key |-> "part", value |-> StrVal("snippet")],
       [key |-> "id", value |-> ListVal(ids)],
       [key |-> "pageToken",
        value |-> IF after = None THEN NoneVal ELSE StrVal(after)] >>

\* variant: the last entry of the array is lost
Entries_skipLast(d) ==
    IF d.has_items /\ d.items # <<>>
    THEN SubSeq(d.items, 1, Len(d.items) - 1)
    ELSE <<>>

\* data.get("items", [])
Entries(d) == IF d.has_items THEN d.items ELSE <<>>

\* variant: the content type is not looked at
UnexpectedResponseType_never(response) == FALSE

\* response.content_type != "application/json"
UnexpectedResponseType(response) == response.content_type # "application/json"

\* the request of one loop pass: pageToken is set, the URL is built without
\* null parameters and with the id list split, the GET goes out
PageRequest(ses, after) ==
    _api_get_request(ses,
        build_url(base_url \o "videos", UrlParams(video_ids, after),
                  TRUE, TRUE, TRUE))

\* variant: an empty page is taken for the end of the sequence
LoopHead_stopOnEmptyPage(ses, is_first, after) ==
    /\ _after' = after
    /\ _first' = is_first
    /\ IF is_first \/ (after # None /\ Len(Entries(data')) > 0)
       THEN /\ requests' = Append(requests, PageRequest(ses, after))
            /\ elapsed' = 0
            /\ pc' = "inflight"
       ELSE /\ pc' = "done"
            /\ UNCHANGED <<requests, elapsed>>

\* variant: the request carries the cursor of the pass before
LoopHead_staleCursor(ses, is_first, after) ==
    /\ _after' = after
    /\ _first' = is_first
    /\ IF is_first \/ after # None
       THEN /\ requests' = Append(requests, PageRequest(ses, _after))
            /\ elapsed' = 0
            /\ pc' = "inflight"
       ELSE /\ pc' = "done"
            /\ UNCHANGED <<requests, elapsed>>

\* variant: one timeout is armed for the whole iteration
LoopHead_armedOnce(ses, is_first, after) ==
    /\ _after' = after
    /\ _first' = is_first
    /\ IF is_first \/ after # None
       THEN /\ requests' = Append(requests, PageRequest(ses, after))
            /\ elapsed' = IF is_first THEN 0 ELSE elapsed
            /\ pc' = "inflight"
       ELSE /\ pc' = "done"
            /\ UNCHANGED <<requests, elapsed>>

\* one pass over the loop head with the cursor `after`: either the request
\* for the next page goes out, or the loop and the generator end
LoopHead(ses, is_first, after) ==
    /\ _after' = after
    /\ _first' = is_first
    /\ IF is_first \/ after # None
       THEN /\ requests' = Append(requests, PageRequest(ses, after))
            /\ elapsed' = 0
            /\ pc' = "inflight"
       ELSE /\ pc' = "done"
            /\ UNCHANGED <<requests, elapsed>>

\* variant: the exception is swallowed and the sequence ends
Raise_asEndOfSequence(e) ==
    /\ pc' = "done"
    /\ error' = e

\* the iteration ends by raising e
Raise(e) ==
    /\ pc' = "failed"
    /\ error' = e

\* get_videos(video_ids): the generator object is created, no code runs
GetVideos(ids) ==
    /\ pc = "idle"
    /\ pc' = "created"
    /\ video_ids' = ids
    /\ op' = "get_videos"
    /\ UNCHANGED <<clientVars, authVars, _after, _first, data, idx, elapsed,
                   yielded, error, requests, responses, helperVars>>

\* variant: the id list is not validated
AdvanceFirst_noValidation ==
    /\ pc = "created"
    /\ session' = IF session = None THEN "own" ELSE session
    /\ _close_session' = IF session = None THEN TRUE ELSE _close_session
    /\ LoopHead(session', TRUE, None)
    /\ op' = "__anext__"
    /\ UNCHANGED <<ctor, session_timeout, auto_refresh_auth, closed,
                   authVars, video_ids, data, idx, yielded, error,
                   responses, helperVars>>

\* first __anext__: get_videos validates its argument, _build_generator
\* sets up its locals and the session and enters the loop
AdvanceFirst ==
    /\ pc = "created"
    /\ op' = "__anext__"
    /\ UNCHANGED helperVars
    /\ IF video_ids = <<>>
       THEN /\ Raise(Err("ValueError", "at least one video id has to be set"))
            /\ UNCHANGED <<clientVars, authVars, video_ids, _after, _first,
                           data, idx, elapsed, yielded, requests, responses>>
       ELSE /\ session' = IF session = None THEN "own" ELSE session
            /\ _close_session' = IF session = None THEN TRUE ELSE _close_session
            /\ LoopHead(session', TRUE, None)
            /\ UNCHANGED <<ctor, session_timeout, auto_refresh_auth, closed,
                           authVars, video_ids, data, idx, yielded, error,
                           responses>>

\* variant: an advance goes for the next page whatever is left of this one
AdvanceNext_skipsRest ==
    /\ pc = "suspended"
    /\ LoopHead(session, FALSE, data.nextPageToken)
    /\ op' = "__anext__"
    /\ UNCHANGED <<idx, yielded, clientVars, authVars, video_ids, data, error,
                   responses, helperVars>>

\* a later __anext__, resuming after `yield`: the next entry of the page, or
\* past the last entry the cursor is read and the loop head is passed again
AdvanceNext ==
    /\ pc = "suspended"
    /\ IF idx < Len(Entries(data))
       THEN /\ idx' = idx + 1
            /\ yielded' = Append(yielded, YouTubeVideo(Entries(data)[idx + 1]))
            /\ UNCHANGED <<pc, _after, _first, elapsed, requests>>
       ELSE /\ LoopHead(session, FALSE, data.nextPageToken)
            /\ UNCHANGED <<idx, yielded>>
    /\ op' = "__anext__"
    /\ UNCHANGED <<clientVars, authVars, video_ids, data, error, responses,
                   helperVars>>

\* variant: the next page is requested as soon as a page with a cursor is in
Respond_prefetch(response) ==
    /\ pc = "inflight"
    /\ elapsed < session_timeout
    /\ responses' = Append(responses, response)
    /\ LET e == _check_request_return(response)
       IN IF e # NoError
          THEN /\ Raise(e)
               /\ UNCHANGED <<_after, _first, data, idx, elapsed, yielded,
                              requests>>
          ELSE IF UnexpectedResponseType(response)
          THEN /\ Raise(Err("YouTubeAPIError", "Unexpected response type"))
               /\ UNCHANGED <<_after, _first, data, idx, elapsed, yielded,
                              requests>>
          ELSE /\ data' = response.body
               /\ IF Len(Entries(response.body)) > 0
                  THEN /\ idx' = 1
                       /\ yielded' = Append(yielded,
                              YouTubeVideo(Entries(response.body)[1]))
                       /\ pc' = "suspended"
                       /\ requests' =
                            IF response.body.nextPageToken # None
                            THEN Append(requests,
                                    PageRequest(session,
                                        response.body.nextPageToken))
                            ELSE requests
                       /\ UNCHANGED <<_after, _first, elapsed>>
                  ELSE /\ LoopHead(session, FALSE,
                                   response.body.nextPageToken)
                       /\ UNCHANGED <<idx, yielded>>
               /\ UNCHANGED error
    /\ op' = "response"
    /\ UNCHANGED <<clientVars, authVars, video_ids, helperVars>>

\* the provider answers the request in flight before the timeout: status
\* classification, content type test, then the page is read
Respond(response) ==
    /\ pc = "inflight"
    /\ elapsed < session_timeout
    /\ responses' = Append(responses, response)
    /\ LET e == _check_request_return(response)
       IN IF e # NoError
          THEN /\ Raise(e)
               /\ UNCHANGED <<_after, _first, data, idx, elapsed, yielded,
                              requests>>
          ELSE IF UnexpectedResponseType(response)
          THEN /\ Raise(Err("YouTubeAPIError", "Unexpected response type"))
               /\ UNCHANGED <<_after, _first, data, idx, elapsed, yielded,
                              requests>>
          ELSE /\ data' = response.body
               /\ IF Len(Entries(response.body)) > 0
                  THEN /\ idx' = 1
                       /\ yielded' = Append(yielded,
                              YouTubeVideo(Entries(response.body)[1]))
                       /\ pc' = "suspended"
                       /\ UNCHANGED <<_after, _first, elapsed, requests>>
                  ELSE /\ LoopHead(session, FALSE,
                                   response.body.nextPageToken)
                       /\ UNCHANGED <<idx, yielded>>
               /\ UNCHANGED error
    /\ op' = "response"
    /\ UNCHANGED <<clientVars, authVars, video_ids, helperVars>>

\* time passes while the request is awaited
Tick ==
    /\ pc = "inflight"
    /\ elapsed < session_timeout
    /\ elapsed' = elapsed + 1
    /\ op' = "await"
    /\ UNCHANGED <<clientVars, authVars, pc, video_ids, _after, _first, data,
                   idx, yielded, error, requests, responses, helperVars>>

\* async_timeout expires: asyncio.TimeoutError is caught and re-raised
Expire ==
    /\ pc = "inflight"
    /\ elapsed = session_timeout
    /\ Raise(Err("YouTubeAPIError", "Timeout occurred"))
    /\ op' = "timeout"
    /\ UNCHANGED <<clientVars, authVars, video_ids, _after, _first, data, idx,
                   elapsed, yielded, requests, responses, helperVars>>

(* ----------------- youtube.py: set_user_authentication ----------------- *)

\* variant: the token is stored before the arguments are checked
SetUserAuthentication_storesBeforeChecks(token, scopes, refresh_token) ==
    LET call == [token |-> token, scopes |-> scopes,
                 refresh_token |-> refresh_token, result |-> None]
    IN /\ _user_auth_token' = token
       /\ IF refresh_token = None /\ auto_refresh_auth
          THEN /\ authCall' = [call EXCEPT !.result = "ValueError"]
               /\ UNCHANGED <<_user_auth_refresh_token, _user_auth_scopes,
                              _has_user_auth>>
          ELSE IF scopes = <<>>
          THEN /\ authCall' = [call EXCEPT !.result = "MissingScopeError"]
               /\ UNCHANGED <<_user_auth_refresh_token, _user_auth_scopes,
                              _has_user_auth>>
          ELSE /\ _user_auth_refresh_token' = refresh_token
               /\ _user_auth_scopes' = scopes
               /\ _has_user_auth' = TRUE
               /\ authCall' = [call EXCEPT !.result = "ok"]
       /\ op' = "set_user_authentication"
       /\ UNCHANGED <<clientVars, genVars, helperVars>>

\* variant: other tasks run between the first assignment and the rest
SetUserAuthentication_tokenFirst(token, scopes, refresh_token) ==
    LET call == [token |-> token, scopes |-> scopes,
                 refresh_token |-> refresh_token, result |-> None]
    IN /\ IF refresh_token = None /\ auto_refresh_auth
          THEN /\ authCall' = [call EXCEPT !.result = "ValueError"]
               /\ UNCHANGED <<_user_auth_token, _user_auth_refresh_token,
                              _user_auth_scopes, _has_user_auth>>
          ELSE IF scopes = <<>>
          THEN /\ authCall' = [call EXCEPT !.result = "MissingScopeError"]
               /\ UNCHANGED <<_user_auth_token, _user_auth_refresh_token,
                              _user_auth_scopes, _has_user_auth>>
          ELSE /\ _user_auth_token' = token
               /\ authCall' = [call EXCEPT !.result = "ok"]
               /\ UNCHANGED <<_user_auth_refresh_token, _user_auth_scopes,
                              _has_user_auth>>
       /\ op' = "set_user_authentication"
       /\ UNCHANGED <<clientVars, genVars, helperVars>>

\* variant: an empty scopes list is accepted
SetUserAuthentication_emptyScopesAccepted(token, scopes, refresh_token) ==
    LET call == [token |-> token, scopes |-> scopes,
                 refresh_token |-> refresh_token, result |-> None]
    IN /\ IF refresh_token = None /\ auto_refresh_auth
          THEN /\ authCall' = [call EXCEPT !.result = "ValueError"]
               /\ UNCHANGED <<_user_auth_token, _user_auth_refresh_token,
                              _user_auth_scopes, _has_user_auth>>
          ELSE /\ _user_auth_token' = token
               /\ _user_auth_refresh_token' = refresh_token
               /\ _user_auth_scopes' = scopes
               /\ _has_user_auth' = TRUE
               /\ authCall' = [call EXCEPT !.result = "ok"]
       /\ op' = "set_user_authentication"
       /\ UNCHANGED <<clientVars, genVars, helperVars>>

SetUserAuthentication(token, scopes, refresh_token) ==
    LET call == [token |-> token, scopes |-> scopes,
                 refresh_token |-> refresh_token, result |-> None]
    IN /\ IF refresh_token = None /\ auto_refresh_auth
          THEN /\ authCall' = [call EXCEPT !.result = "ValueError"]
               /\ UNCHANGED <<_user_auth_token, _user_auth_refresh_token,
                              _user_auth_scopes, _has_user_auth>>
          ELSE IF scopes = <<>>
          THEN /\ authCall' = [call EXCEPT !.result = "MissingScopeError"]
               /\ UNCHANGED <<_user_auth_token, _user_auth_refresh_token,
                              _user_auth_scopes, _has_user_auth>>
          ELSE /\ _user_auth_token' = token
               /\ _user_auth_refresh_token' = refresh_token
               /\ _user_auth_scopes' = scopes
               /\ _has_user_auth' = TRUE
               /\ authCall' = [call EXCEPT !.result = "ok"]
       /\ op' = "set_user_authentication"
       /\ UNCHANGED <<clientVars, genVars, helperVars>>

get_user_auth_token == _user_auth_token

\* variant: the assignments go to the class, where every instance that has
\* not been assigned its own attributes reads them
OtherSetUserAuthentication_onClass(token, scopes, refresh_token) ==
    /\ IF (refresh_token = None /\ other.auto_refresh_auth) \/ scopes = <<>>
       THEN UNCHANGED <<other, _user_auth_token, _user_auth_refresh_token,
                        _user_auth_scopes, _has_user_auth>>
       ELSE /\ other' = [other EXCEPT
                            !._user_auth_token = token,
                            !._user_auth_refresh_token = refresh_token,
                            !._user_auth_scopes = scopes,
                            !._has_user_auth = TRUE]
            /\ IF _has_user_auth
               THEN UNCHANGED <<_user_auth_token, _user_auth_refresh_token,
                                _user_auth_scopes, _has_user_auth>>
               ELSE /\ _user_auth_token' = token
                    /\ _user_auth_refresh_token' = refresh_token
                    /\ _user_auth_scopes' = scopes
                    /\ _has_user_auth' = TRUE
    /\ op' = "other.set_user_authentication"
    /\ UNCHANGED <<clientVars, authCall, genVars, oauthVars, limitVars,
                   urlVars, modelVars, processVars>>

\* set_user_authentication called on the second instance: the checks read
\* and the assignments write the attributes of that instance
OtherSetUserAuthentication(token, scopes, refresh_token) ==
    /\ IF (refresh_token = None /\ other.auto_refresh_auth) \/ scopes = <<>>
       THEN UNCHANGED other
       ELSE other' = [other EXCEPT
                         !._user_auth_token = token,
                         !._user_auth_refresh_token = refresh_token,
                         !._user_auth_scopes = scopes,
                         !._has_user_auth = TRUE]
    /\ op' = "other.set_user_authentication"
    /\ UNCHANGED <<clientVars, authVars, genVars, oauthVars, limitVars,
                   urlVars, modelVars, processVars>>

(* --------------------------- youtube.py: close ------------------------- *)

\* variant: the session is closed whoever created it
Close_anySession ==
    /\ closed' = IF session # None THEN closed \cup {session} ELSE closed
    /\ op' = "close"
    /\ UNCHANGED <<ctor, session, _close_session, session_timeout,
                   auto_refresh_auth, authVars, genVars, helperVars>>

\* variant: close() leaves the session open
Close_leavesOpen ==
    /\ closed' = closed
    /\ op' = "close"
    /\ UNCHANGED <<ctor, session, _close_session, session_timeout,
                   auto_refresh_auth, authVars, genVars, helperVars>>

\* close(), also run by __aexit__: the session is closed when the client
\* created it
Close ==
    /\ closed' = IF session # None /\ _close_session
                 THEN closed \cup {session}
                 ELSE closed
    /\ op' = "close"
    /\ UNCHANGED <<ctor, session, _close_session, session_timeout,
                   auto_refresh_auth, authVars, genVars, helperVars>>

(* ------- youtube.py: a second iteration running on the same client ----- *)

\* get_videos(ids) is called while another iteration may be under way: a new
\* generator object with its own locals, no code runs
GetVideos2(ids) ==
    /\ iter2.pc = "idle"
    /\ iter2' = [iter2 EXCEPT !.pc = "created", !.video_ids = ids]
    /\ op' = "get_videos"
    /\ UNCHANGED <<clientVars, authVars, genVars, oauthVars, limitVars,
                   urlVars, modelVars, other, app>>

\* the request of one loop pass of generator it, built from its own
\* url_params
PageRequest2(it, ses, after) ==
    _api_get_request(ses,
        build_url(base_url \o "videos", UrlParams(it.video_ids, after),
                  TRUE, TRUE, TRUE))

\* variant: the cursor is a field of the client, which the other iteration
\* writes as well
LoopHead2_sharedCursor(it, ses, is_first, after) ==
    IF is_first \/ after # None
    THEN [it EXCEPT !._after = after, !._first = is_first,
                    !.requests = Append(@, PageRequest2(it, ses, _after)),
                    !.pc = "inflight"]
    ELSE [it EXCEPT !._after = after, !._first = is_first, !.pc = "done"]

\* generator it after one pass over the loop head with the cursor `after`
LoopHead2(it, ses, is_first, after) ==
    IF is_first \/ after # None
    THEN [it EXCEPT !._after = after, !._first = is_first,
                    !.requests = Append(@, PageRequest2(it, ses, after)),
                    !.pc = "inflight"]
    ELSE [it EXCEPT !._after = after, !._first = is_first, !.pc = "done"]

\* variant: whether a session has to be created was decided when the client
\* was constructed
AdvanceFirst2_staleCheck ==
    /\ iter2.pc = "created"
    /\ op' = "__anext__"
    /\ IF iter2.video_ids = <<>>
       THEN /\ iter2' = [iter2 EXCEPT
                            !.pc = "failed",
                            !.error = Err("ValueError",
                                "at least one video id has to be set")]
            /\ UNCHANGED <<session, _close_session>>
       ELSE /\ session' = IF ctor.session = None THEN "own2" ELSE session
            /\ _close_session' =
                    IF ctor.session = None THEN TRUE ELSE _close_session
            /\ iter2' = LoopHead2(iter2, session', TRUE, None)
    /\ UNCHANGED <<ctor, session_timeout, auto_refresh_auth, closed, authVars,
                   genVars, oauthVars, limitVars, urlVars, modelVars, other,
                   app>>

\* the first __anext__ of the second generator: the id check of get_videos,
\* then _build_generator up to its first await; the test for a missing
\* session and the creation run without a suspension in between
AdvanceFirst2 ==
    /\ iter2.pc = "created"
    /\ op' = "__anext__"
    /\ IF iter2.video_ids = <<>>
       THEN /\ iter2' = [iter2 EXCEPT
                            !.pc = "failed",
                            !.error = Err("ValueError",
                                "at least one video id has to be set")]
            /\ UNCHANGED <<session, _close_session>>
       ELSE /\ session' = IF session = None THEN "own2" ELSE session
            /\ _close_session' = IF session = None THEN TRUE ELSE _close_session
            /\ iter2' = LoopHead2(iter2, session', TRUE, None)
    /\ UNCHANGED <<ctor, session_timeout, auto_refresh_auth, closed, authVars,
                   genVars, oauthVars, limitVars, urlVars, modelVars, other,
                   app>>

\* a later __anext__ of the second generator: the next entry of the page, or
\* the loop head
AdvanceNext2 ==
    /\ iter2.pc = "suspended"
    /\ iter2' =
        IF iter2.idx < Len(Entries(iter2.data))
        THEN [iter2 EXCEPT
                 !.idx = @ + 1,
                 !.yielded = Append(@,
                    YouTubeVideo(Entries(iter2.data)[iter2.idx + 1]))]
        ELSE LoopHead2(iter2, session, FALSE, iter2.data.nextPageToken)
    /\ op' = "__anext__"
    /\ UNCHANGED <<clientVars, authVars, genVars, oauthVars, limitVars,
                   urlVars, modelVars, other, app>>

\* the provider answers the request of the second generator
Respond2(response) ==
    /\ iter2.pc = "inflight"
    /\ LET it == [iter2 EXCEPT !.responses = Append(@, response)]
           e == _check_request_return(response)
       IN iter2' =
            IF e # NoError
            THEN [it EXCEPT !.pc = "failed", !.error = e]
            ELSE IF UnexpectedResponseType(response)
            THEN [it EXCEPT
                     !.pc = "failed",
                     !.error = Err("YouTubeAPIError",
                                   "Unexpected response type")]
            ELSE IF Len(Entries(response.body)) > 0
            THEN [it EXCEPT
                     !.data = response.body,
                     !.idx = 1,
                     !.yielded = Append(@,
                        YouTubeVideo(Entries(response.body)[1])),
                     !.pc = "suspended"]
            ELSE LoopHead2([it EXCEPT !.data = response.body], session,
                           FALSE, response.body.nextPageToken)
    /\ op' = "response"
    /\ UNCHANGED <<clientVars, authVars, genVars, oauthVars, limitVars,
                   urlVars, modelVars, other, app>>

(* -------------------- oauth.py: refresh_access_token ------------------- *)

YOUTUBE_AUTH_TOKEN_URL == "https://oauth2.googleapis.com/token"

\* refresh tokens refresh_access_token is called with
OAuthRefreshTokens == {"refreshA", "refreshB"}

\* statuses of the token endpoint
TokenStatuses == {200, 201, 400, 401, 403, 500}

\* bodies of the token endpoint: not JSON, or a JSON object that has or
\* lacks the fields access_token and error
TokenBodies ==
    {[json |-> FALSE, access_token |-> None, error |-> None]}
    \cup
    [json : {TRUE}, access_token : {None, "tokA"},
     error : {None, "invalid_grant"}]

TokenAnswers == [status : TokenStatuses, body : TokenBodies]

\* what `await result.json()` raises on a body that is not JSON
JsonErrors == {"ContentTypeError", "JSONDecodeError"}

Returned(value) ==
    [kind |-> "returned", cls |-> None, msg |-> "", value |-> value]

Raised(cls, msg) ==
    [kind |-> "raised", cls |-> cls, msg |-> msg, value |-> <<>>]

\* data.get("error", "")
get_error(body) == IF body.error = None THEN "" ELSE body.error

\* refresh_access_token(refresh_token, app_id, app_secret, session): the
\* session is taken or opened, the POST goes out and is awaited
RefreshAccessToken(refresh_token, session_arg) ==
    /\ oauth_pc = "idle"
    /\ oauth_pc' = "posting"
    /\ oauth_args' = [refresh_token |-> refresh_token, session |-> session_arg,
                      url |-> build_url(YOUTUBE_AUTH_TOKEN_URL, <<>>,
                                        TRUE, FALSE, TRUE)]
    /\ oauth_ses' = IF session_arg # None THEN session_arg ELSE "oauth_own"
    /\ UNCHANGED <<token_response, oauth_return, clientVars, authVars, genVars,
                   op, other, processVars, limitVars, urlVars, modelVars>>

\* ses.post raises: the exception leaves refresh_access_token
PostFails ==
    /\ oauth_pc = "posting"
    /\ oauth_pc' = "done"
    /\ oauth_return' = Raised("ClientConnectionError", "")
    /\ UNCHANGED <<oauth_args, oauth_ses, token_response, clientVars, authVars,
                   genVars, op, other, processVars, limitVars, urlVars, modelVars>>

\* the token endpoint answers: the body is read as JSON inside the `async
\* with`, a session the call opened is closed, the status is classified and
\* the token pair is returned
TokenAnswer(answer) ==
    /\ oauth_pc = "posting"
    /\ oauth_pc' = "done"
    /\ token_response' = answer
    /\ IF ~answer.body.json
       THEN /\ \E cls \in JsonErrors : oauth_return' = Raised(cls, "")
            /\ UNCHANGED closed
       ELSE /\ closed' = IF oauth_args.session = None
                         THEN closed \cup {oauth_ses}
                         ELSE closed
            /\ oauth_return' =
                 IF answer.status = 400
                 THEN Raised("InvalidRefreshTokenError", get_error(answer.body))
                 ELSE IF answer.status = 401
                 THEN Raised("UnauthorizedError", get_error(answer.body))
                 ELSE IF answer.body.access_token = None
                 THEN Raised("KeyError", "access_token")
                 ELSE Returned(<<answer.body.access_token,
                                 oauth_args.refresh_token>>)
    /\ UNCHANGED <<oauth_args, oauth_ses, ctor, session, _close_session,
                   session_timeout, auto_refresh_auth, authVars, genVars, op, other, processVars,
                   limitVars, urlVars, modelVars>>

(* --------------------------- helper.py: first -------------------------- *)

\* variant: every way the generator ends without a value gives None
first_swallowsErrors(gen_pc, gen_yielded, gen_error) ==
    IF gen_pc = "suspended"
    THEN [kind |-> "returned", value |-> gen_yielded[Len(gen_yielded)],
          error |-> NoError]
    ELSE [kind |-> "returned", value |-> PyNone, error |-> NoError]

\* first(generator), by how `await generator.__anext__()` ended: the value
\* yielded is returned, StopAsyncIteration gives None, any other exception
\* passes through
first(gen_pc, gen_yielded, gen_error) ==
    IF gen_pc = "suspended"
    THEN [kind |-> "returned", value |-> gen_yielded[Len(gen_yielded)],
          error |-> NoError]
    ELSE IF gen_pc = "done"
    THEN [kind |-> "returned", value |-> PyNone, error |-> NoError]
    ELSE [kind |-> "raised", value |-> PyNone, error |-> gen_error]

\* the __anext__ that first awaits has ended: first returns or raises
FirstReturn ==
    /\ pc \in {"suspended", "done", "failed"}
    /\ first_return = NoFirst
    /\ first_return' = first(pc, yielded, error)
    /\ UNCHANGED <<clientVars, authVars, genVars, op, other, processVars, oauthVars, urlVars,
                   modelVars, limit_pc, generator, pulled, total, count,
                   limited, limit_error>>

(* --------------------------- helper.py: limit -------------------------- *)

\* generators handed to limit: up to MaxSource items
Sources == UNION {[1..n -> {"a", "b"}] : n \in 0..MaxSource}

Totals == -1..MaxTotal

\* limit(generator, total): the generator object is created, no code runs
Limit(items, n) ==
    /\ limit_pc = "idle"
    /\ limit_pc' = "created"
    /\ generator' = items
    /\ total' = n
    /\ UNCHANGED <<pulled, count, limited, limit_error, first_return,
                   clientVars, authVars, genVars, op, other, processVars, oauthVars, urlVars,
                   modelVars>>

\* one pass of `async for item in generator`: the underlying generator is
\* advanced; its item is counted and, unless the count exceeds total,
\* yielded; the loop ends when the generator has ended or on break
LimitLoop(counted) ==
    IF pulled < Len(generator)
    THEN /\ pulled' = pulled + 1
         /\ count' = counted + 1
         /\ IF counted + 1 > total
            THEN /\ limit_pc' = "done"
                 /\ UNCHANGED limited
            ELSE /\ limit_pc' = "suspended"
                 /\ limited' = Append(limited, generator[pulled + 1])
    ELSE /\ limit_pc' = "done"
         /\ count' = counted
         /\ UNCHANGED <<pulled, limited>>

\* variant: the loop breaks one item early
LimitAdvance_breaksEarly ==
    /\ limit_pc \in {"created", "suspended"}
    /\ IF limit_pc = "created" /\ total < 1
       THEN /\ limit_pc' = "failed"
            /\ limit_error' = Err("ValueError", "Limit has to be an int > 1")
            /\ UNCHANGED <<pulled, count, limited>>
       ELSE /\ IF pulled < Len(generator)
               THEN /\ pulled' = pulled + 1
                    /\ count' = count + 1
                    /\ IF count + 1 >= total
                       THEN /\ limit_pc' = "done"
                            /\ UNCHANGED limited
                       ELSE /\ limit_pc' = "suspended"
                            /\ limited' = Append(limited,
                                                 generator[pulled + 1])
               ELSE /\ limit_pc' = "done"
                    /\ UNCHANGED <<pulled, count, limited>>
            /\ UNCHANGED limit_error
    /\ UNCHANGED <<generator, total, first_return, clientVars, authVars,
                   genVars, op, other, processVars, oauthVars, urlVars, modelVars>>

\* __anext__ on the limited generator: the first one checks total and sets
\* count to 0, every one runs the loop up to the next yield or the end
LimitAdvance ==
    /\ limit_pc \in {"created", "suspended"}
    /\ IF limit_pc = "created" /\ total < 1
       THEN /\ limit_pc' = "failed"
            /\ limit_error' = Err("ValueError", "Limit has to be an int > 1")
            /\ UNCHANGED <<pulled, count, limited>>
       ELSE /\ LimitLoop(IF limit_pc = "created" THEN 0 ELSE count)
            /\ UNCHANGED limit_error
    /\ UNCHANGED <<generator, total, first_return, clientVars, authVars,
                   genVars, op, other, processVars, oauthVars, urlVars, modelVars>>

(* ----------------------- helper.py: build_url calls -------------------- *)

UrlKeys == {"hello", "id", "part"}

\* list values: up to MaxListLen strings
UrlLists == UNION {[1..n -> {"yes", "no"}] : n \in 0..MaxListLen}

\* parameter values: None, a string, an Enum member, a list
UrlValues ==
    {NoneVal, StrVal("yes"),
     EnumVal("AuthScope.MANAGE", "https://www.googleapis.com/auth/youtube")}
    \cup {ListVal(l) : l \in UrlLists}

\* parameter dicts: up to MaxParams keys, each once, in insertion order
UrlParamSets ==
    UNION {{ps \in [1..n -> [key : UrlKeys, value : UrlValues]] :
                \A i, j \in 1..n : i # j => ps[i].key # ps[j].key} :
           n \in 0..MaxParams}

UrlArgs ==
    [url : {"asd.com"}, params : UrlParamSets, remove_none : BOOLEAN,
     split_lists : BOOLEAN, enum_value : BOOLEAN]

\* build_url(url, params, remove_none, split_lists, enum_value) is called
BuildUrl ==
    /\ url_result = None
    /\ url_args # NoUrlArgs
    /\ url_result' = build_url(url_args.url, url_args.params,
                               url_args.remove_none, url_args.split_lists,
                               url_args.enum_value)
    /\ UNCHANGED <<url_args, clientVars, authVars, genVars, op, other, processVars, oauthVars,
                   limitVars, modelVars>>

(* ------------------- models.py: decoding and access -------------------- *)

Titles == {"Google I/O", "Keynote"}

Timestamps == {"2023-05-11T00:20:46Z", "2015-11-19T13:00:05Z"}

\* a raw item with or without one of its optional keys
NoKey == [key \in {} |-> PyNone]

Optional(parts) == {NoKey} \cup parts

RawVideos ==
    {[kind |-> "youtube#video", id |-> "V4DDt30Aat4"] @@ sn :
        sn \in Optional({[snippet |-> [publishedAt |-> d,
                                       channelId |-> "UCAuUUnT6oDeKwE6v1NGQxug",
                                       title |-> t]] :
                            t \in Titles, d \in Timestamps})}

RawChannels ==
    {[kind |-> "youtube#channel", id |-> "UC_x5XG1OV2P6uZZ5FSM9Ttw"]
        @@ sn @@ cd @@ st :
        sn \in Optional({[snippet |-> [title |-> t, publishedAt |-> d]] :
                            t \in Titles, d \in Timestamps}),
        cd \in Optional({[contentDetails |->
                            [relatedPlaylists |-> [likes |-> "",
                                                   uploads |-> u]]] :
                            u \in {"UU_x5XG1OV2P6uZZ5FSM9Ttw"}}),
        st \in Optional({[statistics |-> [viewCount |-> "214141263",
                                          hiddenSubscriberCount |-> h,
                                          videoCount |-> "5937"]] :
                            h \in BOOLEAN})}

RawSubscriptions ==
    {[kind |-> "youtube#subscription", id |-> "sub1"] @@ sn :
        sn \in Optional({[snippet |->
                            [title |-> t, publishedAt |-> d,
                             resourceId |-> [channelId |-> "UC_x5"]]] :
                            t \in Titles, d \in Timestamps})}

RawPlaylistItems ==
    {[kind |-> "youtube#playlistItem", id |-> "item1"] @@ sn @@ cd :
        sn \in Optional({[snippet |-> [publishedAt |-> d, title |-> t,
                                       playlistId |-> "UU_x5"]] :
                            t \in Titles, d \in Timestamps}),
        cd \in Optional({[contentDetails |-> [videoId |-> v]] :
                            v \in {"V4DDt30Aat4"}})}

RawItems == RawVideos \cup RawChannels \cup RawSubscriptions
            \cup RawPlaylistItems

\* the properties each resource class has
Properties(kind) ==
    CASE kind = "youtube#video" -> {"snippet"}
      [] kind = "youtube#channel" ->
            {"snippet", "content_details", "statistics"}
      [] kind = "youtube#subscription" -> {"snippet"}
      [] kind = "youtube#playlistItem" -> {"snippet", "content_details"}

\* the raw item is decoded by the class of its kind
Decode ==
    /\ raw_item # NoItem
    /\ resource = NoItem
    /\ resource' =
         CASE raw_item.kind = "youtube#video" -> YouTubeVideo(raw_item)
           [] raw_item.kind = "youtube#channel" -> YouTubeChannel(raw_item)
           [] raw_item.kind = "youtube#subscription" ->
                 YouTubeSubscription(raw_item)
           [] raw_item.kind = "youtube#playlistItem" ->
                 YouTubePlaylistItem(raw_item)
    /\ UNCHANGED <<raw_item, accessed, thumbVars, clientVars, authVars,
                   genVars, op, other, processVars, oauthVars, limitVars, urlVars>>

\* a property of the decoded resource is read
Access(part) ==
    /\ resource # NoItem
    /\ part \in Properties(raw_item.kind)
    /\ accessed' =
         [part |-> part]
         @@ CASE part = "snippet" -> snippet(resource)
              [] part = "content_details" -> content_details(resource)
              [] part = "statistics" -> statistics(resource)
    /\ UNCHANGED <<raw_item, resource, thumbVars, clientVars, authVars,
                   genVars, op, other, processVars, oauthVars, limitVars, urlVars>>

(* ------------------- models.py: get_highest_quality -------------------- *)

\* YouTubeThumbnail objects under the key `size`
Thumbnails(size) ==
    {[url |-> size \o "/" \o file, width |-> 120, height |-> 90] :
        file \in {"a.jpg", "b.jpg"}}

\* an optional thumbnail: None or an object
OptionalThumbnails(size) == {PyNone} \cup Thumbnails(size)

VideoThumbnails ==
    [cls : {"YouTubeVideoThumbnails"},
     default : Thumbnails("default"),
     medium : OptionalThumbnails("medium"),
     high : OptionalThumbnails("high"),
     standard : OptionalThumbnails("standard"),
     maxres : OptionalThumbnails("maxres")]

ChannelThumbnails ==
    [cls : {"YouTubeChannelThumbnails"},
     default : Thumbnails("default"),
     medium : OptionalThumbnails("medium"),
     high : OptionalThumbnails("high")]

\* `for size in sizes: if size is not None: return size`, then
\* `return self.default`
first_not_none(sizes, default) ==
    LET found == {i \in 1..Len(sizes) : sizes[i] # PyNone}
    IN IF found = {}
       THEN default
       ELSE sizes[CHOOSE i \in found : \A j \in found : i <= j]

\* variant: standard is looked at before maxres
YouTubeVideoThumbnails_get_highest_quality_standardFirst(self) ==
    first_not_none(<<self.standard, self.maxres, self.high, self.medium>>,
                   self.default)

\* YouTubeVideoThumbnails.get_highest_quality
YouTubeVideoThumbnails_get_highest_quality(self) ==
    first_not_none(<<self.maxres, self.standard, self.high, self.medium>>,
                   self.default)

\* YouTubeChannelThumbnails.get_highest_quality
YouTubeChannelThumbnails_get_highest_quality(self) ==
    first_not_none(<<self.high, self.medium>>, self.default)

\* thumbnails.get_highest_quality() is called
GetHighestQuality ==
    /\ thumbnails # NoItem
    /\ highest_quality = PyNone
    /\ highest_quality' =
         IF thumbnails.cls = "YouTubeVideoThumbnails"
         THEN YouTubeVideoThumbnails_get_highest_quality(thumbnails)
         ELSE YouTubeChannelThumbnails_get_highest_quality(thumbnails)
    /\ UNCHANGED <<thumbnails, raw_item, resource, accessed, clientVars,
                   authVars, genVars, op, other, processVars, oauthVars, limitVars, urlVars>>

(* ---------- async_python_youtube/youtube.py: app authentication -------- *)

\* scope lists passed to authenticate_app and set_app_authentication
AppScopeLists == {<<>>, <<"READ_ONLY">>}

\* app tokens passed to set_app_authentication
AppTokens == {"appA", "appB"}

\* the stored app credential of client a
AppCredential(a) == <<a._app_auth_token, a._app_auth_scopes, a._has_app_auth>>

\* authenticate_app up to the POST in _generate_app_token: the scopes are
\* stored first, a missing app secret raises, otherwise the token request
\* goes out
AuthenticateApp(scopes) ==
    /\ app.pc # "posting"
    /\ app' = [app EXCEPT
                  !.before = AppCredential(app),
                  !.op = "authenticate_app",
                  !._app_auth_scopes = scopes,
                  !.pc = IF app.app_secret = None
                         THEN "raised" ELSE "posting",
                  !.error = IF app.app_secret = None
                            THEN "MissingAppSecretError" ELSE None]
    /\ UNCHANGED <<clientVars, authVars, genVars, op, other, iter2,
                   oauthVars, limitVars, urlVars, modelVars>>

\* the session does not answer within session_timeout: nothing catches the
\* asyncio.TimeoutError
AppPostTimeout ==
    /\ app.pc = "posting"
    /\ app' = [app EXCEPT !.pc = "raised", !.error = "TimeoutError"]
    /\ UNCHANGED <<clientVars, authVars, genVars, op, other, iter2,
                   oauthVars, limitVars, urlVars, modelVars>>

\* the token endpoint answers: a status other than 200, a body that is not
\* JSON and a body without access_token raise; otherwise
\* _generate_app_token stores the token and authenticate_app sets the flag
AppTokenAnswer(answer) ==
    /\ app.pc = "posting"
    /\ IF answer.status # 200
       THEN app' = [app EXCEPT !.pc = "raised",
                               !.error = "YouTubeAuthorizationError"]
       ELSE IF ~answer.body.json
       THEN \E cls \in {"YouTubeAuthorizationError", "ContentTypeError"} :
                app' = [app EXCEPT !.pc = "raised", !.error = cls]
       ELSE IF answer.body.access_token = None
       THEN app' = [app EXCEPT !.pc = "raised",
                               !.error = "YouTubeAuthorizationError"]
       ELSE app' = [app EXCEPT
                       !._app_auth_token = answer.body.access_token,
                       !._has_app_auth = TRUE,
                       !.pc = "returned"]
    /\ UNCHANGED <<clientVars, authVars, genVars, op, other, iter2,
                   oauthVars, limitVars, urlVars, modelVars>>

\* set_app_authentication: three assignments
SetAppAuthentication(token, scopes) ==
    /\ app.pc # "posting"
    /\ app' = [app EXCEPT
                  !.before = AppCredential(app),
                  !.op = "set_app_authentication",
                  !._app_auth_token = token,
                  !._app_auth_scopes = scopes,
                  !._has_app_auth = TRUE,
                  !.pc = "returned",
                  !.error = None]
    /\ UNCHANGED <<clientVars, authVars, genVars, op, other, iter2,
                   oauthVars, limitVars, urlVars, modelVars>>

(* --------------------------- specifications ---------------------------- *)

Next ==
    \/ \E ids \in VideoIdLists : GetVideos(ids)
    \/ AdvanceFirst
    \/ AdvanceNext
    \/ \E response \in Answers(Len(responses) + 1) : Respond(response)
    \/ Tick
    \/ Expire
    \/ Close

Spec == Init /\ [][Next]_vars

NextAuth ==
    \E token \in UserTokens, scopes \in ScopeLists,
       refresh_token \in RefreshTokens :
        SetUserAuthentication(token, scopes, refresh_token)

SpecAuth == InitAuth /\ [][NextAuth]_vars

\* refresh_access_token on its own
NextOAuth ==
    \/ \E refresh_token \in OAuthRefreshTokens, session_arg \in {None, "supplied"} :
            RefreshAccessToken(refresh_token, session_arg)
    \/ PostFails
    \/ \E answer \in TokenAnswers : TokenAnswer(answer)

SpecOAuth == Init /\ [][NextOAuth]_vars

\* get_video: first on the generator of get_videos, which is advanced once
NextFirst ==
    \/ \E ids \in VideoIdLists : GetVideos(ids)
    \/ AdvanceFirst
    \/ \E response \in Answers(Len(responses) + 1) : Respond(response)
    \/ Tick
    \/ Expire
    \/ FirstReturn

SpecFirst == Init /\ [][NextFirst]_vars

\* limit on every generator and total
NextLimit ==
    \/ \E items \in Sources, n \in Totals : Limit(items, n)
    \/ LimitAdvance

InitLimit == Constructed(DefaultArgs) /\ HelpersIdle

SpecLimit == InitLimit /\ [][NextLimit]_vars

\* build_url on every parameter set and flag combination
InitUrl ==
    /\ Constructed(DefaultArgs)
    /\ OtherIdle
    /\ ProcessIdle
    /\ OAuthIdle
    /\ LimitIdle
    /\ ModelsIdle
    /\ url_args \in UrlArgs
    /\ url_result = None

NextUrl == BuildUrl

SpecUrl == InitUrl /\ [][NextUrl]_vars

\* decoding a raw item and reading the properties of the resource
InitModels ==
    /\ Constructed(DefaultArgs)
    /\ OtherIdle
    /\ ProcessIdle
    /\ OAuthIdle
    /\ LimitIdle
    /\ UrlIdle
    /\ raw_item \in RawItems
    /\ resource = NoItem
    /\ accessed = NoAccess
    /\ ThumbsIdle

NextModels ==
    \/ Decode
    \/ \E part \in {"snippet", "content_details", "statistics"} : Access(part)

SpecModels == InitModels /\ [][NextModels]_vars

\* get_highest_quality on every thumbnails object
InitThumbs ==
    /\ Constructed(DefaultArgs)
    /\ OtherIdle
    /\ ProcessIdle
    /\ OAuthIdle
    /\ LimitIdle
    /\ UrlIdle
    /\ raw_item = NoItem
    /\ resource = NoItem
    /\ accessed = NoAccess
    /\ thumbnails \in VideoThumbnails \cup ChannelThumbnails
    /\ highest_quality = PyNone

NextThumbs == GetHighestQuality

SpecThumbs == InitThumbs /\ [][NextThumbs]_vars

\* clients whose session is watched: with and without a supplied session
SessionCtorArgs == {args \in GenCtorArgs : args.session_timeout = ShortTimeout}

\* answers to a page request that keep the chain going, end it or fail it
SessionAnswers(k) ==
    {r \in Answers(k) : r.status \in {200, 404} /\ Len(r.body.items) <= 1}

\* token endpoint answers: a token pair, a refused token, a body that is
\* not JSON
SessionTokenAnswers ==
    {a \in TokenAnswers :
        /\ a.status \in {200, 400}
        /\ a.body.error = None
        /\ a.body.json => a.body.access_token # None}

InitSession ==
    (\E args \in SessionCtorArgs : Constructed(args)) /\ HelpersIdle

\* a paginated iteration, close() and a token refresh side by side
NextSession ==
    \/ \E ids \in VideoIdLists : GetVideos(ids)
    \/ AdvanceFirst
    \/ AdvanceNext
    \/ \E response \in SessionAnswers(Len(responses) + 1) : Respond(response)
    \/ Tick
    \/ Expire
    \/ Close
    \/ \E refresh_token \in {"refreshA"}, session_arg \in {None, "supplied"} :
            RefreshAccessToken(refresh_token, session_arg)
    \/ PostFails
    \/ \E answer \in SessionTokenAnswers : TokenAnswer(answer)

SpecSession == InitSession /\ [][NextSession]_vars

\* clients that authenticate while they iterate: with and without app
\* credentials, so with and without auto_refresh_auth
CredentialCtorArgs ==
    [app_id : {None, "app"}, app_secret : {"secret"}, session : {"supplied"},
     session_timeout : {ShortTimeout}, auto_refresh_auth : {None}]

InitCredentials ==
    (\E args \in CredentialCtorArgs : Constructed(args)) /\ HelpersIdle

\* pages of at most one item, and one answer that ends the iteration early
CredentialAnswers(k) ==
    {r \in SessionAnswers(k) : r.content_type = "application/json"}

\* a paginated iteration whose requests are answered in time, and
\* set_user_authentication calls side by side
NextCredentials ==
    \/ \E ids \in VideoIdLists : GetVideos(ids)
    \/ AdvanceFirst
    \/ AdvanceNext
    \/ \E response \in CredentialAnswers(Len(responses) + 1) :
            Respond(response)
    \/ \E token \in UserTokens, scopes \in ScopeLists,
          refresh_token \in RefreshTokens :
            SetUserAuthentication(token, scopes, refresh_token)

SpecCredentials == InitCredentials /\ [][NextCredentials]_vars

\* the token each of the two instances is given
SelfTokens == {"tokA"}

OtherTokens == {"tokB"}

InitInstances ==
    /\ \E args \in CredentialCtorArgs : Constructed(args)
    /\ \E args \in CredentialCtorArgs : OtherConstructed(args)
    /\ ProcessIdle
    /\ OAuthIdle
    /\ LimitIdle
    /\ UrlIdle
    /\ ModelsIdle

\* two instances in one process: both are authenticated, one of them
\* iterates
NextInstances ==
    \/ \E ids \in VideoIdLists : GetVideos(ids)
    \/ AdvanceFirst
    \/ AdvanceNext
    \/ \E response \in CredentialAnswers(Len(responses) + 1) :
            Respond(response)
    \/ \E token \in SelfTokens, scopes \in ScopeLists,
          refresh_token \in RefreshTokens :
            SetUserAuthentication(token, scopes, refresh_token)
    \/ \E token \in OtherTokens, scopes \in ScopeLists,
          refresh_token \in RefreshTokens :
            OtherSetUserAuthentication(token, scopes, refresh_token)

SpecInstances == InitInstances /\ [][NextInstances]_vars

InitApp ==
    /\ Constructed(DefaultArgs)
    /\ OAuthIdle
    /\ LimitIdle
    /\ UrlIdle
    /\ ModelsIdle
    /\ OtherIdle
    /\ \E app_secret \in {None, "secret"} : AppConstructed(app_secret)
    /\ iter2 = NoIteration

\* the app credential is issued and set, again and again
NextApp ==
    \/ \E scopes \in AppScopeLists : AuthenticateApp(scopes)
    \/ AppPostTimeout
    \/ \E answer \in TokenAnswers : AppTokenAnswer(answer)
    \/ \E token \in AppTokens, scopes \in AppScopeLists :
            SetAppAuthentication(token, scopes)

SpecApp == InitApp /\ [][NextApp]_vars

\* clients on which two iterations run: with and without a session
ConcurrentCtorArgs ==
    [app_id : {None}, app_secret : {None}, session : {None, "supplied"},
     session_timeout : {DefaultTimeout}, auto_refresh_auth : {None}]

\* id lists of the second iteration
VideoIdLists2 == {<<>>, <<"V4DDt30Aat4">>}

\* pages answered to an iteration whose provider hands out the cursor token
ConcurrentAnswers(k, token) ==
    {r \in CredentialAnswers(k) : r.body.nextPageToken \in {None, token}}

InitConcurrent ==
    (\E args \in ConcurrentCtorArgs : Constructed(args)) /\ HelpersIdle

\* two iterations of one client, advanced and answered in any order
NextConcurrent ==
    \/ \E ids \in VideoIdLists : GetVideos(ids)
    \/ AdvanceFirst
    \/ AdvanceNext
    \/ \E response \in ConcurrentAnswers(Len(responses) + 1, "X") :
            Respond(response)
    \/ \E ids \in VideoIdLists2 : GetVideos2(ids)
    \/ AdvanceFirst2
    \/ AdvanceNext2
    \/ \E response \in ConcurrentAnswers(Len(iter2.responses) + 1, "Q==") :
            Respond2(response)

SpecConcurrent == InitConcurrent /\ [][NextConcurrent]_vars

(* ------------------------------ properties ----------------------------- *)

Last(seq) == seq[Len(seq)]

\* a page of the provider's chain: a 2xx JSON answer
IsPage(r) == r.status \in 200..299 /\ r.content_type = "application/json"

AllPages == \A i \in 1..Len(responses) : IsPage(responses[i])

\* the decoded items of a chain of pages, in page order and array order
RECURSIVE ItemsOf(_)
ItemsOf(rs) ==
    IF rs = <<>>
    THEN <<>>
    ELSE ItemsOf(SubSeq(rs, 1, Len(rs) - 1))
         \o [i \in 1..Len(Last(rs).body.items) |->
                YouTubeVideo(Last(rs).body.items[i])]

\* no item of the k-th answer has been handed to the consumer
NoItemOf(k) == \A j \in 1..Len(yielded) : yielded[j].video_id[1] # k

\* the URL of the page request for the ids of this iteration with the
\* percent-encoded cursor as its pageToken
PageUrl(encoded) ==
    LET ids[i \in 0..Len(video_ids)] ==
            IF i = 0 THEN "" ELSE ids[i - 1] \o "&id=" \o video_ids[i]
    IN base_url \o "videos?part=snippet" \o ids[Len(video_ids)]
       \o "&pageToken=" \o encoded

\* the iteration failed while a request was still unanswered
TimedOut == pc = "failed" /\ Len(requests) > Len(responses)

\* C1: when the provider answers with a finite chain of pages, the iteration
\* that has ended has yielded exactly the concatenation of the pages' items,
\* in page order and array order, with as many requests as pages; and the
\* advance after the last item of the last page ends the sequence without a
\* request.
C1_YieldsConcatenationOfPages ==
    /\ []((pc = "done" /\ AllPages)
            => /\ yielded = ItemsOf(responses)
               /\ Len(requests) = Len(responses))
    /\ [][(/\ pc = "suspended"
           /\ AllPages
           /\ idx = Len(data.items)
           /\ data.nextPageToken = None
           /\ pc' # pc)
            => (pc' = "done" /\ requests' = requests)]_vars

\* two pages, 2 items with a cursor and then 1 item without: 3 items, 2
\* requests, ended
C1_Witness ==
    /\ pc = "done"
    /\ AllPages
    /\ Len(responses) = 2
    /\ Len(responses[1].body.items) = 2
    /\ Len(responses[2].body.items) = 1
    /\ Len(yielded) = 3
    /\ Len(requests) = 2

\* a page without items (empty or absent array) that carries a cursor
EmptyPageWithCursor(r) ==
    /\ IsPage(r)
    /\ (~r.body.has_items \/ r.body.items = <<>>)
    /\ r.body.nextPageToken # None

\* an answer the status classification and the content type test let through
Accepted(r) ==
    /\ r.status \notin (400..499) \cup {500}
    /\ r.content_type = "application/json"

C4_NotFoundAndBackendError ==
    responses # <<>>
        => /\ Last(responses).status = 404
                => /\ pc = "failed"
                   /\ error.cls = "YouTubeResourceNotFoundError"
                   /\ NoItemOf(Len(responses))
           /\ Last(responses).status = 500
                => /\ pc = "failed"
                   /\ error.cls = "YouTubeBackendError"
                   /\ NoItemOf(Len(responses))

\* the second page request is answered with 404 after a page was delivered
C4_Witness ==
    /\ Len(responses) = 2
    /\ Last(responses).status = 404
    /\ yielded # <<>>
    /\ pc = "failed"

C6_ForbiddenAndUnauthorized ==
    responses # <<>>
        => /\ Last(responses).status = 403
                => (pc = "failed" /\ error.cls = "ForbiddenError")
           /\ Last(responses).status = 401
                => (pc = "failed" /\ error.cls = "UnauthorizedError")

C8_UnexpectedResponseType ==
    (/\ responses # <<>>
     /\ Last(responses).status \in 200..299
     /\ Last(responses).content_type # "application/json")
        => /\ pc = "failed"
           /\ error = Err("YouTubeAPIError", "Unexpected response type")
           /\ NoItemOf(Len(responses))
           /\ Len(requests) = Len(responses)

C8_Witness ==
    /\ responses # <<>>
    /\ Last(responses).status = 200
    /\ Last(responses).content_type = "plain/text"
    /\ Last(responses).body.items # <<>>
    /\ pc = "failed"

\* C9: a request that is not answered within the timeout makes the iteration
\* fail with an error of the connection/timeout kind, not with the API error
\* of the status classification, and no further request is issued.
C9_TimeoutIsConnectionError ==
    TimedOut
        => /\ error.cls \in {"YouTubeConnectionError", "TimeoutError"}
           /\ Len(requests) = Len(responses) + 1

AutoRefreshRequested ==
    \/ ctor.auto_refresh_auth = "True"
    \/ /\ ctor.auto_refresh_auth = None
       /\ ctor.app_id # None
       /\ ctor.app_secret # None

\* C11: the auto-refresh policy is enabled exactly when auto_refresh_auth=True
\* was passed, or it was left unset and both app_id and app_secret were
\* given; on a client with the policy a set_user_authentication call without
\* refresh token fails with ValueError, on a client without it the same call
\* with non-empty scopes succeeds and stores the token.
C11_AutoRefreshNeedsRefreshToken ==
    /\ auto_refresh_auth <=> AutoRefreshRequested
    /\ (authCall.result # None /\ authCall.refresh_token = None)
            => IF AutoRefreshRequested
               THEN authCall.result = "ValueError"
               ELSE authCall.scopes # <<>>
                        => /\ authCall.result = "ok"
                           /\ _user_auth_token = authCall.token
                           /\ _has_user_auth

\* app_id and app_secret given, auto_refresh_auth unset: the call without
\* refresh token was refused
C11_Witness ==
    /\ ctor.auto_refresh_auth = None
    /\ ctor.app_id # None
    /\ ctor.app_secret # None
    /\ authCall.result = "ValueError"
    /\ authCall.refresh_token = None
    /\ authCall.scopes # <<>>

\* C12: refresh_access_token classifies the token endpoint's answer: 400 is
\* InvalidRefreshTokenError, 401 is UnauthorizedError, any other non-2xx
\* status and any body that is malformed or lacks access_token is
\* YouTubeAuthorizationError, and only a well-formed 2xx answer returns a
\* token pair.
C12_TokenAnswerClassification ==
    (oauth_pc = "done" /\ token_response # NoAnswer)
        => LET status == token_response.status
               body == token_response.body
           IN IF status = 400 /\ body.json
              THEN oauth_return.cls = "InvalidRefreshTokenError"
              ELSE IF status = 401 /\ body.json
              THEN oauth_return.cls = "UnauthorizedError"
              ELSE IF \/ status \notin 200..299
                      \/ ~body.json
                      \/ body.access_token = None
              THEN /\ oauth_return.kind = "raised"
                   /\ oauth_return.cls = "YouTubeAuthorizationError"
              ELSE oauth_return
                     = Returned(<<body.access_token, oauth_args.refresh_token>>)

\* C13: a refresh_access_token call that was given no session has closed
\* the session it opened when it has ended, however it ended.
C13_OwnSessionClosedOnEveryExit ==
    (oauth_pc = "done" /\ oauth_args.session = None)
        => oauth_ses \in closed

\* C14: a session supplied by the caller is never closed: not by paginated
\* requests and their failures, not by close() on a client built with it,
\* and not by a refresh_access_token call that was given it.
C14_SuppliedSessionStaysOpen == "supplied" \notin closed

\* a client built with a session has iterated and was closed, and a token
\* refresh that was given a session has ended
C14_Witness ==
    /\ ctor.session = "supplied"
    /\ requests # <<>>
    /\ pc = "failed"
    /\ op = "close"
    /\ oauth_args.session = "supplied"
    /\ oauth_pc = "done"
    /\ oauth_return.kind = "returned"

\* C15: a client built without a session holds none until its first page
\* request is about to be issued; from then on it holds one session that it
\* owns, every request of the client has gone out on that session, and
\* close() closes it.
C15_OwnSessionCreatedOnFirstRequest ==
    ctor.session = None
        => /\ requests = <<>> => (session = None /\ closed = {})
           /\ requests # <<>>
                => /\ session \notin {None, "supplied"}
                   /\ _close_session
                   /\ \A i \in 1..Len(requests) : requests[i].session = session
           /\ (op = "close" /\ session # None) => session \in closed

\* two page requests went out on the client's own session, then close()
C15_Witness ==
    /\ ctor.session = None
    /\ Len(requests) = 2
    /\ requests[1].session = session
    /\ requests[2].session = session
    /\ op = "close"
    /\ session \in closed

\* the JSON key of the part a property reads
KeyOf(part) ==
    CASE part = "snippet" -> "snippet"
      [] part = "content_details" -> "contentDetails"
      [] part = "statistics" -> "statistics"

\* fields of the sub-records, each with the raw key it is read from: those
\* taken over as they are, and the timestamps
PlainFields ==
    {<<"title", "title">>, <<"channel_id", "channelId">>,
     <<"playlist_id", "playlistId">>, <<"video_id", "videoId">>,
     <<"related_playlists", "relatedPlaylists">>,
     <<"channel_info", "resourceId">>,
     <<"subscriber_count_hidden", "hiddenSubscriberCount">>}

TimeFields ==
    {<<"published_at", "publishedAt">>, <<"subscribed_at", "publishedAt">>,
     <<"added_at", "publishedAt">>}

\* the decoded sub-record has the field values of the raw part
SameFieldValues(value, raw) ==
    /\ \A f \in PlainFields :
            f[1] \in DOMAIN value
                => (f[2] \in DOMAIN raw /\ value[f[1]] = raw[f[2]])
    /\ \A f \in TimeFields :
            f[1] \in DOMAIN value
                => /\ f[2] \in DOMAIN raw
                   /\ raw[f[2]] = "2023-05-11T00:20:46Z"
                        => (value[f[1]].year = 2023 /\ value[f[1]].second = 46)
                   /\ raw[f[2]] = "2015-11-19T13:00:05Z"
                        => (value[f[1]].year = 2015 /\ value[f[1]].second = 5)
    /\ \A key \in DOMAIN raw :
            \E f \in PlainFields \cup TimeFields
                    \cup {<<"view_count", "viewCount">>,
                          <<"video_count", "videoCount">>} :
                f[2] = key /\ f[1] \in DOMAIN value

JoinParts(parts) ==
    LET joined[i \in 0..Len(parts)] ==
            IF i = 0 THEN ""
            ELSE IF i = 1 THEN parts[1]
            ELSE joined[i - 1] \o "&" \o parts[i]
    IN joined[Len(parts)]

\* the parts of all parameters in dictionary order, PartsOf(p) being the
\* parts of the parameter p
AllParts(params, PartsOf(_)) ==
    LET all[i \in 0..Len(params)] ==
            IF i = 0 THEN <<>> ELSE all[i - 1] \o PartsOf(params[i])
    IN all[Len(params)]

\* the URL with these query parts: no "?" when there is none
UrlOf(url, parts) ==
    IF parts = <<>> THEN url ELSE url \o "?" \o JoinParts(parts)

\* what build_url makes of the parameter p alone under the flags of the call
Alone(p) ==
    LET query == build_query("", <<p>>, url_args.remove_none,
                             url_args.split_lists, url_args.enum_value)
    IN IF query = "" THEN <<>> ELSE <<query>>

\* a null parameter is left out or is the bare key
NullParts(p) ==
    IF p.value.t = "none"
    THEN IF url_args.remove_none THEN <<>> ELSE <<p.key>>
    ELSE Alone(p)

\* C17: build_url with remove_none=True leaves out every parameter whose
\* value is None, and the URL has no "?" when nothing remains; with
\* remove_none=False such a parameter is the bare key without "=" and value;
\* the other parameters appear in the dictionary's order in both cases.
C17_RemoveNone ==
    url_result # None
        => url_result = UrlOf(url_args.url, AllParts(url_args.params, NullParts))

\* a null parameter before a string parameter, remove_none=False
C17_Witness ==
    /\ url_result = "asd.com?hello&id=yes"
    /\ ~url_args.remove_none
    /\ url_args.params[1].value = NoneVal

\* a list parameter is one key=value part per element in the list's order,
\* or one part with the list as its value
ListParts(p) ==
    IF p.value.t = "list"
    THEN IF url_args.split_lists
         THEN [i \in 1..Len(p.value.v) |->
                    p.key \o "=" \o quote(runs(p.value.v[i]))]
         ELSE <<p.key \o "=" \o quote(get_value(p.value, url_args.enum_value))>>
    ELSE Alone(p)

\* C18: build_url with split_lists=True makes of a list parameter one
\* key=value pair per element, all under the same key, in the list's order
\* and as many as the list has elements; with split_lists=False the list is
\* a single value under one key.
C18_SplitLists ==
    url_result # None
        => url_result = UrlOf(url_args.url, AllParts(url_args.params, ListParts))

\* a two-element list, split
C18_Witness ==
    /\ url_result = "asd.com?hello=yes&hello=no"
    /\ url_args.split_lists
    /\ url_args.params[1].value = ListVal(<<"yes", "no">>)

\* the first answer is a page with at least one item
FirstPageNonEmpty ==
    /\ responses # <<>>
    /\ IsPage(responses[1])
    /\ Len(responses[1].body.items) > 0

\* C19: first returns the first value the sequence yields, and returns None
\* exactly when the sequence has ended without yielding anything; on a
\* paginated sequence whose first page is not empty, exactly one request
\* has been issued.
C19_FirstValueOrNone ==
    /\ first_return.kind # None
            => /\ yielded # <<>>
                    => /\ first_return.kind = "returned"
                       /\ first_return.value = ItemsOf(responses)[1]
               /\ (first_return.kind = "returned"
                        /\ first_return.value = PyNone)
                    <=> (pc = "done" /\ yielded = <<>>)
    /\ FirstPageNonEmpty => Len(requests) = 1

\* an empty page with a cursor, then a page with items: first returned the
\* first item of the second page
C19_Witness ==
    /\ Len(responses) = 2
    /\ AllPages
    /\ responses[1].body.items = <<>>
    /\ responses[2].body.items # <<>>
    /\ first_return.kind = "returned"
    /\ first_return.value = YouTubeVideo(responses[2].body.items[1])
    /\ Len(requests) = 2

Min(a, b) == IF a < b THEN a ELSE b

\* what limit has yielded is a prefix of the generator's items of at most
\* min(total, n) items, of exactly that many when it has ended; it fails
\* only for total < 1, with ValueError and nothing yielded
LimitedSoFar ==
    /\ limit_pc \in {"suspended", "done"}
            => /\ total >= 1
               /\ Len(limited) <= Min(total, Len(generator))
               /\ limited = SubSeq(generator, 1, Len(limited))
    /\ limit_pc = "done" => Len(limited) = Min(total, Len(generator))
    /\ limit_pc = "failed"
            => /\ total < 1
               /\ limited = <<>>
               /\ limit_error.cls = "ValueError"

\* C20: limit with total >= 1 yields the first min(total, n) items of an
\* n-item generator in order and then ends; with total < 1 its first
\* advance fails with ValueError.
C20_LimitYieldsFirstItems ==
    /\ []LimitedSoFar
    /\ [][(limit_pc = "created" /\ total < 1) => limit_pc' = "failed"]_vars
    /\ [][(/\ limit_pc = "suspended"
            /\ Len(limited) = Min(total, Len(generator)))
            => limit_pc' = "done"]_vars

\* three items limited to two
C20_Witness ==
    /\ limit_pc = "done"
    /\ Len(generator) = 3
    /\ total = 2
    /\ limited = SubSeq(generator, 1, 2)

\* the sizes get_highest_quality prefers to the default, best first
Priority ==
    IF thumbnails.cls = "YouTubeVideoThumbnails"
    THEN <<"maxres", "standard", "high", "medium">>
    ELSE <<"high", "medium">>

\* C21: get_highest_quality returns the first thumbnail present in the order
\* maxres, standard, high, medium (channel thumbnails: high, medium), and
\* the default thumbnail exactly when none of them is present.
C21_HighestQualityThumbnail ==
    highest_quality # PyNone
        => /\ \A i \in 1..Len(Priority) :
                (/\ thumbnails[Priority[i]] # PyNone
                 /\ \A j \in 1..(i - 1) : thumbnails[Priority[j]] = PyNone)
                    => highest_quality = thumbnails[Priority[i]]
           /\ highest_quality = thumbnails.default
                <=> \A i \in 1..Len(Priority) : thumbnails[Priority[i]] = PyNone

\* video thumbnails without maxres but with standard and high
C21_Witness ==
    /\ thumbnails.cls = "YouTubeVideoThumbnails"
    /\ thumbnails.maxres = PyNone
    /\ thumbnails.standard # PyNone
    /\ thumbnails.high # PyNone
    /\ highest_quality = thumbnails.standard

\* C22: the request for the next page goes out only after every item of the
\* page before it was handed to the consumer and the consumer has advanced
\* again: while a request is in flight, every item of every page received
\* so far has been delivered.
C22_NoRequestWhileItemsUndelivered ==
    /\ [](pc = "inflight" => yielded = ItemsOf(responses))
    /\ [][(/\ Len(requests') > Len(requests)
           /\ responses' # <<>>
           /\ Last(responses').body.items # <<>>)
            => /\ pc = "suspended"
               /\ idx = Len(data.items)
               /\ yielded' = yielded
               /\ op' = "__anext__"]_vars

\* a page of two items with a cursor was delivered and the second request
\* is in flight
C22_Witness ==
    /\ pc = "inflight"
    /\ Len(responses) = 1
    /\ Len(responses[1].body.items) = 2
    /\ Len(yielded) = 2
    /\ Len(requests) = 2

\* an answer that makes the page request fail: a status the classification
\* maps to an error, or a content type other than JSON
Failing(r) ==
    \/ r.status \in (400..499) \cup {500}
    \/ r.content_type # "application/json"

\* the answers that were received as pages when the iteration failed: all
\* of them after a timeout, all but the last one otherwise
PagesBeforeFailure ==
    IF TimedOut THEN responses ELSE SubSeq(responses, 1, Len(responses) - 1)

\* C23: when the request for page k fails (mapped status, unexpected content
\* type or timeout), the consumer has received exactly the items of pages
\* 1..k-1 in order, the advance that asked for page k ends with the error
\* and not with the end of the sequence, and the failing request was issued
\* once: nothing is requested after the failure.
C23_FailureAfterExactlyThePagesBefore ==
    /\ []((pc = "failed" /\ requests # <<>>)
            => /\ Len(requests) = Len(PagesBeforeFailure) + 1
               /\ yielded = ItemsOf(PagesBeforeFailure)
               /\ ~TimedOut => Failing(Last(responses))
               /\ error.cls # None)
    /\ [][(/\ Len(responses') = Len(responses) + 1
           /\ Failing(Last(responses')))
            => (pc' = "failed" /\ yielded' = yielded)]_vars
    /\ [][(pc = "inflight" /\ elapsed = session_timeout /\ pc' # pc)
            => (pc' = "failed" /\ yielded' = yielded)]_vars
    /\ [][pc = "failed" => (pc' = "failed" /\ requests' = requests)]_vars

\* a page of two items was delivered, the request for the second page
\* timed out
C23_Witness ==
    /\ TimedOut
    /\ Len(responses) = 1
    /\ Len(yielded) = 2
    /\ Len(requests) = 2

\* the URL of a request for the first page: no pageToken parameter
FirstPageUrl ==
    LET ids[i \in 0..Len(video_ids)] ==
            IF i = 0 THEN "" ELSE ids[i - 1] \o "&id=" \o video_ids[i]
    IN base_url \o "videos?part=snippet" \o ids[Len(video_ids)]

\* a page token as a query string carries it (RFC 3986 percent-encoding)
OnWire(token) == IF token = "Q==" THEN "Q%3D%3D" ELSE token

\* C24: the first request carries no pageToken (get_videos supplies no
\* initial cursor); every later request carries as pageToken the
\* nextPageToken of the answer received immediately before it, and is only
\* issued when that answer had one.
C24_PageTokenIsPreviousCursor ==
    /\ [](requests # <<>> => requests[1].url = FirstPageUrl)
    /\ [][(Len(requests') = Len(requests) + 1 /\ requests # <<>>)
            => /\ Len(responses') = Len(requests)
               /\ Last(responses').body.nextPageToken # None
               /\ Last(requests').url
                    = FirstPageUrl \o "&pageToken="
                        \o OnWire(Last(responses').body.nextPageToken)]_vars

\* the second request went out after a page with items and the cursor "Q=="
C24_Witness ==
    /\ Len(requests) = 2
    /\ Len(responses) = 1
    /\ responses[1].body.nextPageToken = "Q=="
    /\ Len(yielded) = 1

\* C25: every request carries `Authorization: Bearer <token>` with the user
\* token stored when the request is issued; after a successful
\* set_user_authentication between two page fetches the later request
\* carries the new token.
C25_HeaderCarriesCurrentToken ==
    [][Len(requests') = Len(requests) + 1
        => Last(requests').headers
             = [Authorization |-> "Bearer " \o _user_auth_token]]_vars

\* two page requests of one iteration, the token was replaced in between
C25_Witness ==
    /\ Len(requests) = 2
    /\ requests[1].headers.Authorization = "Bearer tokA"
    /\ requests[2].headers.Authorization = "Bearer tokB"

\* the stored user credential
Credential ==
    <<_user_auth_token, _user_auth_refresh_token, _user_auth_scopes,
      _has_user_auth>>

\* C28: set_user_authentication replaces the stored credential in one step:
\* whenever any of token, refresh token, scopes and flag changes, all four
\* are those of the call that succeeded in that step, whatever the iteration
\* of the same client is doing; before the first success all four have their
\* initial values.
C28_CredentialReplacedAtomically ==
    /\ [][Credential' # Credential
            => /\ op' = "set_user_authentication"
               /\ authCall'.result = "ok"
               /\ Credential' = <<authCall'.token, authCall'.refresh_token,
                                  authCall'.scopes, TRUE>>]_vars
    /\ [](~_has_user_auth
            => Credential = <<None, None, UnsetScopes, FALSE>>)

\* a credential with a refresh token replaced the one the first request
\* went out with, while the iteration waits for its consumer
C28_Witness ==
    /\ pc = "suspended"
    /\ requests[1].headers.Authorization = "Bearer tokA"
    /\ Credential = <<"tokB", "refresh", <<"READ_ONLY">>, TRUE>>

\* C26: a request goes out only in a step of a consumer advance: in the
\* __anext__ call itself, or when the answer awaited by that call is an
\* empty page and the same call goes on to the next page.  While the consumer
\* holds an item and has not advanced again no request is in flight or
\* issued, whatever cursor the page carries.
C26_RequestsOnlyOnAdvance ==
    /\ [][Len(requests') > Len(requests)
            => \/ pc \in {"created", "suspended"} /\ op' = "__anext__"
               \/ /\ pc = "inflight"
                  /\ op' = "response"
                  /\ Last(responses').body.items = <<>>]_vars
    /\ [](pc = "suspended" => Len(requests) = Len(responses))
    /\ [][(pc = "suspended" /\ op' # "__anext__")
            => requests' = requests]_vars

\* the consumer holds the first item of a page that carries a cursor; one
\* request has been issued
C26_Witness ==
    /\ pc = "suspended"
    /\ Len(yielded) = 1
    /\ data.nextPageToken # None
    /\ Len(requests) = 1

\* C27: the timeout is armed afresh with every page request and runs only
\* while that request is awaited: the awaited time starts at 0 when a request
\* goes out, advances only while the request is in flight, and the iteration
\* fails with the timeout only when the request in flight has been awaited
\* for session_timeout; an answer that comes earlier never ends in the
\* timeout error, however long earlier pages and the consumer took.
C27_TimeoutPerRequest ==
    /\ [][Len(requests') > Len(requests) => elapsed' = 0]_vars
    /\ [][elapsed' # elapsed
            => \/ Len(requests') > Len(requests)
               \/ /\ pc = "inflight"
                  /\ op' = "await"
                  /\ elapsed' = elapsed + 1]_vars
    /\ [][(pc # "failed" /\ TimedOut')
            => (pc = "inflight" /\ elapsed = session_timeout)]_vars
    /\ [][Len(responses') > Len(responses)
            => (elapsed < session_timeout /\ ~TimedOut')]_vars

\* the first page was delivered, the request for the second page has been
\* awaited for all but one unit of a short timeout and is then answered
C27_Witness ==
    /\ session_timeout = ShortTimeout
    /\ Len(responses) = 2
    /\ elapsed = ShortTimeout - 1
    /\ pc = "suspended"

\* C30: every answer with a 5xx status ends the iteration with
\* YouTubeBackendError: it is the last answer, it is not read as a page, none
\* of its items is yielded and its nextPageToken is not followed.
C30_ServerErrorsAreBackendErrors ==
    \A i \in 1..Len(responses) :
        responses[i].status \in 500..599
            => /\ i = Len(responses)
               /\ Len(requests) = i
               /\ pc = "failed"
               /\ error.cls = "YouTubeBackendError"
               /\ yielded = ItemsOf(SubSeq(responses, 1, i - 1))

\* the credential fields of the second instance
OtherCredential ==
    <<other._user_auth_token, other._user_auth_refresh_token,
      other._user_auth_scopes, other._has_user_auth>>

\* C29: the credential is kept per instance: a set_user_authentication call
\* on one of two instances leaves the other's token, refresh token, scopes
\* and flag as they were, in both directions, and the requests of an
\* instance never carry the token that was given to the other one.
C29_CredentialPerInstance ==
    /\ [][op' = "other.set_user_authentication"
            => (Credential' = Credential /\ requests' = requests)]_vars
    /\ [][op' # "other.set_user_authentication"
            => OtherCredential' = OtherCredential]_vars
    /\ [](\A i \in 1..Len(requests) :
            requests[i].headers.Authorization
                \in {"Bearer " \o t : t \in SelfTokens \cup {None}})
    /\ [](_user_auth_token \in SelfTokens \cup {None})
    /\ [](other._user_auth_token \in OtherTokens \cup {None})

\* the second instance has its token, the first one has none and issues a
\* request
C29_Witness ==
    /\ OtherCredential = <<"tokB", "refresh", <<"READ_ONLY">>, TRUE>>
    /\ Credential = <<None, None, UnsetScopes, FALSE>>
    /\ pc = "inflight"
    /\ op = "__anext__"
    /\ Len(requests) = 1

\* C31: a failed authenticate_app (missing app secret, a token response
\* other than 200, a body without access_token) leaves app token, app scopes
\* and the has-app-auth flag as they were when the call began.
C31_FailedAuthenticateAppChangesNothing ==
    (app.op = "authenticate_app" /\ app.pc = "raised")
        => AppCredential(app) = app.before

\* C32: issuing a token never writes the stored credential: the stored app
\* token changes only in a set_app_authentication call.
C32_IssuanceDoesNotStore ==
    [][app'._app_auth_token # app._app_auth_token
        => app'.op = "set_app_authentication"]_vars

\* C33: a set_user_authentication call that raises leaves token, refresh
\* token, scopes and flag as they were; the flag is set only by a call that
\* succeeds, and after such a call get_user_auth_token returns its token, so
\* that it always returns the token of the most recent successful call.
C33_FailedCallChangesNothing ==
    /\ [][authCall'.result \in {"ValueError", "MissingScopeError"}
            => Credential' = Credential]_vars
    /\ [][_has_user_auth' # _has_user_auth => authCall'.result = "ok"]_vars
    /\ [][authCall'.result = "ok"
            => (_has_user_auth' /\ get_user_auth_token' = authCall'.token)]_vars
    /\ [](~_has_user_auth => get_user_auth_token = None)

\* a call with tokB failed for its scopes after a call with tokA succeeded
C33_Witness ==
    /\ authCall.result = "MissingScopeError"
    /\ authCall.token = "tokB"
    /\ _has_user_auth
    /\ get_user_auth_token = "tokA"

\* C34: no request is issued on a session the client has closed: a page
\* request that follows close() goes out on an open session.
C34_NoRequestOnClosedSession ==
    [][Len(requests') > Len(requests)
        => Last(requests').session \notin closed]_vars

\* C35: limit(generator, total) with total >= 1 takes at most total items
\* from the underlying generator.
C35_LimitPullsAtMostTotal ==
    total >= 1 => pulled <= total

\* C36: on a client constructed without a session, iterations started
\* concurrently create one session between them: once the client has a
\* session no iteration replaces it, and every request of either iteration
\* goes out on it.
C36_OneSessionForConcurrentIterations ==
    /\ [][session # None => session' = session]_vars
    /\ [](\A i \in 1..Len(requests) : requests[i].session = session)
    /\ [](\A i \in 1..Len(iter2.requests) :
            iter2.requests[i].session = session)
    /\ [](session = None => (requests = <<>> /\ iter2.requests = <<>>))

\* both iterations have a request in flight on the session the second one
\* created
C36_Witness ==
    /\ ctor.session = None
    /\ session = "own2"
    /\ pc = "inflight"
    /\ iter2.pc = "inflight"
    /\ requests[1].session = "own2"

\* the URL of a first-page request for the id list ids
FirstPageUrlOf(ids) ==
    LET q[i \in 0..Len(ids)] ==
            IF i = 0 THEN "" ELSE q[i - 1] \o "&id=" \o ids[i]
    IN base_url \o "videos?part=snippet" \o q[Len(ids)]

\* the answers that were read as pages
Pages(resps) == SelectSeq(resps, IsPage)

\* an iteration over ids that has issued reqs, was answered resps, has
\* yielded got and stands at position at behaves as it does alone: each
\* request carries its ids and the cursor of its own previous answer, and
\* the items yielded are those of its own pages, in order
RunsAlone(ids, reqs, resps, got, at) ==
    /\ Len(reqs) \in {Len(resps), Len(resps) + 1}
    /\ \A i \in 1..Len(reqs) :
         reqs[i].url =
            IF i = 1
            THEN FirstPageUrlOf(ids)
            ELSE FirstPageUrlOf(ids) \o "&pageToken="
                    \o OnWire(resps[i - 1].body.nextPageToken)
    /\ Len(got) <= Len(ItemsOf(Pages(resps)))
    /\ got = SubSeq(ItemsOf(Pages(resps)), 1, Len(got))
    /\ at \in {"inflight", "done"} => got = ItemsOf(Pages(resps))

\* C37: two iterations that run concurrently on one client do not interfere:
\* under every interleaving of their advances and answers each of them
\* issues the requests and yields the items it would alone.
C37_ConcurrentIterationsDoNotInterfere ==
    /\ RunsAlone(video_ids, requests, responses, yielded, pc)
    /\ RunsAlone(iter2.video_ids, iter2.requests, iter2.responses,
                 iter2.yielded, iter2.pc)

\* both iterations have asked for their second page, each with the cursor
\* its own first page carried
C37_Witness ==
    /\ pc = "inflight"
    /\ iter2.pc = "inflight"
    /\ Len(requests) = 2
    /\ Len(iter2.requests) = 2
    /\ responses[1].body.nextPageToken = "X"
    /\ iter2.responses[1].body.nextPageToken = "Q=="
    /\ Len(yielded) = 1
    /\ Len(iter2.yielded) = 0

====
